---- MODULE Spec2Model ----
(***************************************************************************)
(* SimpleSkale 4.0 (EmbroiderSize): the rescaling engine, its validation   *)
(* engine and the DST / PES codecs, as state machines over exact rational  *)
(* arithmetic.                                                             *)
(*                                                                         *)
(* Numbers.  The TypeScript code computes in IEEE doubles.  Here a number  *)
(* is an exact rational <<n, d>> in lowest terms with d > 0, so that       *)
(* equal numbers are equal values.  Math.sqrt is the one irrational        *)
(* operation: the comparisons the resampling makes on a distance are       *)
(* decided exactly on the squared distance, and the distances that are     *)
(* summed into the density metrics are taken to two decimals.              *)
(***************************************************************************)
EXTENDS Integers, Sequences, FiniteSets, TLC

VARIABLES
    design,     \* engine: the DesignDocument the caller currently holds
    imported,   \* engine: the document as it was imported (never changes)
    input,      \* engine: the document handed to the last applyScaling call
    config,     \* engine: the SimpleSkaleEngine's config (targetDensityMm, safeMode)
    call,       \* engine: the ScalingParams of the last applyScaling call
    result,     \* engine: what the last applyScaling call returned or threw
    calls,      \* engine: number of applyScaling calls made so far
    sizing,     \* sizing: the arguments of a calculateScaleFactor call
    sized,      \* sizing: <<what the call returned or threw>>, <<>> before it
    cdoc,       \* codec: the document handed to the writer
    cfmt,       \* codec: the format of the file written, "none" before
    cfile,      \* codec: the bytes of the file written
    cout,       \* codec: <<what the parser returned or threw>>, <<>> before
    checking,   \* validator: the validation function called and its arguments
    checked,    \* validator: <<the ValidationResult returned>>, <<>> before
    heap,       \* store: the objects allocated so far, an object's address its index
    held,       \* store: the address of the document the caller holds
    given,      \* store: the address of the document handed to the last call
    atCall,     \* store: the heap as it was when the last call was made
    returned,   \* store: what the last call returned or threw
    hcalls,     \* store: number of applyScaling calls made so far
    ibuf,       \* import: the bytes of the file to open
    iname,      \* import: the file name passed to parseEmbroideryFile, NONE if none
    ivia,       \* import: the function the file was opened with, "none" before
    iout,       \* import: <<what that function returned or threw>>, <<>> before
    rbuf,       \* reader: the bytes of the buffer the BinaryReader was made over
    roff,       \* reader: the BinaryReader's offset
    rlast,      \* reader: the last operation, the offset it found, what it gave
    jfmt,       \* jump: the writer whose long-move loop runs, "none" before
    jdx,        \* jump: the movement handed to the loop, along x
    jdy,        \* jump: the movement handed to the loop, along y
    jremX,      \* jump: remainingX
    jremY,      \* jump: remainingY
    jsteps,     \* jump: the steps written so far, each <<stepX, stepY>>
    jpc,        \* jump: where the loop is: "loop" or "done"
    uOriginal,  \* app: originalDesign: NONE (null) or Some(document)
    uScaled,    \* app: scaledDesign: NONE (null) or Some(document)
    uScale,     \* app: scale, the percentage of the slider
    uResults,   \* app: validationResults
    uIsScaling, \* app: isScaling
    uTimer,     \* app: the pending timeout: NONE, or Some of what its callback closed over
    uLoads      \* app: documents loaded so far

vars == <<design, imported, input, config, call, result, calls,
          sizing, sized, cdoc, cfmt, cfile, cout, checking, checked,
          heap, held, given, atCall, returned, hcalls, ibuf, iname, ivia, iout,
          rbuf, roff, rlast,
          jfmt, jdx, jdy, jremX, jremY, jsteps, jpc,
          uOriginal, uScaled, uScale, uResults, uIsScaling, uTimer, uLoads>>

engineVars == <<design, imported, input, config, call, result, calls>>
sizingVars == <<sizing, sized>>
codecVars == <<cdoc, cfmt, cfile, cout>>
validatorVars == <<checking, checked>>
storeVars == <<heap, held, given, atCall, returned, hcalls>>
importVars == <<ibuf, iname, ivia, iout>>
readerVars == <<rbuf, roff, rlast>>
jumpVars == <<jfmt, jdx, jdy, jremX, jremY, jsteps, jpc>>
appVars == <<uOriginal, uScaled, uScale, uResults, uIsScaling, uTimer, uLoads>>

\* the variables a specification of one part leaves alone
notEngine ==
    <<sizingVars, codecVars, validatorVars, storeVars, importVars, readerVars, jumpVars,
      appVars>>
notSizing ==
    <<engineVars, codecVars, validatorVars, storeVars, importVars, readerVars, jumpVars,
      appVars>>
notCodec ==
    <<engineVars, sizingVars, validatorVars, storeVars, importVars, readerVars, jumpVars,
      appVars>>
notValidator ==
    <<engineVars, sizingVars, codecVars, storeVars, importVars, readerVars, jumpVars,
      appVars>>
notStore ==
    <<engineVars, sizingVars, codecVars, validatorVars, importVars, readerVars, jumpVars,
      appVars>>
notImport ==
    <<engineVars, sizingVars, codecVars, validatorVars, storeVars, readerVars, jumpVars,
      appVars>>
notReader ==
    <<engineVars, sizingVars, codecVars, validatorVars, storeVars, importVars, jumpVars,
      appVars>>
notJump ==
    <<engineVars, sizingVars, codecVars, validatorVars, storeVars, importVars, readerVars,
      appVars>>
notApp ==
    <<engineVars, sizingVars, codecVars, validatorVars, storeVars, importVars, readerVars, jumpVars>>

(***************************************************************************)
(* Bounds of the model.                                                    *)
(***************************************************************************)
MaxCalls == 2       \* applyScaling calls in one behaviour
MaxLen == 3         \* stitches in the generated block of an initial document
MaxSize == 3        \* widths, heights and target sizes of the sizing calls, in mm

(***************************************************************************)
(* Exact rationals.                                                        *)
(***************************************************************************)
\* Evaluation note: a value that is used more than once is passed as an
\* operator argument rather than named in a LET, so that it is computed once.
Abs(n) == IF n < 0 THEN -n ELSE n

\* Euclid's algorithm on naturals
GCDOf[a \in Nat, b \in Nat] == IF b = 0 THEN a ELSE GCDOf[b, a % b]
GCD(a, b) == GCDOf[a, b]

Reduce(n, d, g) == <<n \div g, d \div g>>
\* the rational n / d (d # 0) in lowest terms with a positive denominator
Rat(n, d) ==
    IF d < 0 THEN Reduce(-n, -d, GCD(Abs(n), Abs(d)))
    ELSE Reduce(n, d, GCD(Abs(n), Abs(d)))

RInt(n) == <<n, 1>>
\* sums are taken over the least common denominator
AddOver(a, b, g) ==
    Rat(a[1] * (b[2] \div g) + b[1] * (a[2] \div g), a[2] * (b[2] \div g))
RAdd(a, b) == AddOver(a, b, GCD(a[2], b[2]))
RNeg(a) == <<-a[1], a[2]>>
RSub(a, b) == RAdd(a, RNeg(b))
\* products cancel crosswise first: g divides a[1] and b[2], h divides b[1] and a[2]
MulOver(a, b, g, h) == <<(a[1] \div g) * (b[1] \div h), (a[2] \div h) * (b[2] \div g)>>
RMul(a, b) == MulOver(a, b, GCD(Abs(a[1]), b[2]), GCD(Abs(b[1]), a[2]))
RInv(a) == IF a[1] < 0 THEN <<-a[2], -a[1]>> ELSE <<a[2], a[1]>>
RDiv(a, b) == RMul(a, RInv(b))
RFloor(a) == a[1] \div a[2]
\* a < b: by the integer parts, then by the fractional parts
RLt(a, b) ==
    \/ RFloor(a) < RFloor(b)
    \/ /\ RFloor(a) = RFloor(b)
       /\ (a[1] % a[2]) * b[2] < (b[1] % b[2]) * a[2]
RLe(a, b) == ~RLt(b, a)
RAbs(a) == <<Abs(a[1]), a[2]>>
\* the greater of two numbers
largerOf(a, b) == IF RLt(a, b) THEN b ELSE a
\* Math.min / Math.max
RMin(a, b) == IF RLt(b, a) THEN b ELSE a
RMax(a, b) == IF RLt(a, b) THEN b ELSE a

\* the integer part of the square root of n >= 0, by bisection on [lo, hi)
ISqrtIn[n \in Nat, lo \in Nat, hi \in Nat] ==
    IF hi - lo <= 1 THEN lo
    ELSE IF ((lo + hi) \div 2) * ((lo + hi) \div 2) <= n
         THEN ISqrtIn[n, (lo + hi) \div 2, hi]
         ELSE ISqrtIn[n, lo, (lo + hi) \div 2]

ISqrt(n) == ISqrtIn[n, 0, 46341]

\* the first four decimals of r / d, for 0 <= r < d
Decimals4(r, d) == ((r * 100) \div d) * 100 + (((r * 100) % d) * 100) \div d

\* Math.sqrt of a rational >= 0, to two decimals (rounded down)
RSqrt(a) == Rat(ISqrt((a[1] \div a[2]) * 10000 + Decimals4(a[1] % a[2], a[2])), 100)

\* a for loop: acc after step(acc, i) for i = lo, lo + 1, ..., hi in that
\* order.  The range is halved and the first half computed before the second
\* is entered, so the evaluation nests only as deep as the logarithm of the
\* number of iterations.
FoldOver(step(_, _), start, first, last) ==
    LET RECURSIVE over(_, _, _)
        over(acc, lo, hi) ==
            IF lo > hi THEN acc
            ELSE IF lo = hi THEN step(acc, lo)
            ELSE CHOOSE next \in { over(m, (lo + hi) \div 2 + 1, hi) :
                                     m \in { over(acc, lo, (lo + hi) \div 2) } } : TRUE
    IN  over(start, first, last)

\* an optional parameter: NONE when it was not supplied; a number is a
\* rational <<n, d>>, a boolean b is Some(b)
NONE == <<>>
Some(b) == <<b>>

(***************************************************************************)
(* types/index.ts                                                          *)
(***************************************************************************)
StitchTypes == {"run", "bean", "satin", "fill", "jump", "trim", "stop", "end"}

BROTHER_PP1_PROFILE ==
    [ id |-> "brother-pp1",
      name |-> "Brother Skitch PP1",
      maxHoopWidthMm |-> RInt(100),
      maxHoopHeightMm |-> RInt(100),
      maxStitchLengthMm |-> RInt(3),
      minStitchLengthMm |-> Rat(3, 10),
      recommendedMaxDensityStitchesPerMm2 |-> 15,
      recommendedMinDensityStitchesPerMm2 |-> 2,
      safeModeDefault |-> TRUE ]

Pt(x, y) == [x |-> x, y |-> y]
St(x, y, t, c) == [position |-> Pt(RInt(x), RInt(y)), type |-> t, colorIndex |-> c]

(***************************************************************************)
(* utils/calculations.ts                                                   *)
(***************************************************************************)
\* dx*dx + dy*dy of distance(p1, p2)
SumOfSquares(dx, dy) == RAdd(RMul(dx, dx), RMul(dy, dy))
DistSq(p1, p2) == SumOfSquares(RSub(p2.x, p1.x), RSub(p2.y, p1.y))

distance(p1, p2) == RSqrt(DistSq(p1, p2))

interpolatePoint(p1, p2, t) ==
    Pt(RAdd(p1.x, RMul(RSub(p2.x, p1.x), t)),
       RAdd(p1.y, RMul(RSub(p2.y, p1.y), t)))

\* colorBlocks.flatMap((block) => block.stitches)
Flatten(blocks) ==
    LET upTo[k \in 0..Len(blocks)] ==
            IF k = 0 THEN <<>> ELSE upTo[k - 1] \o blocks[k].stitches
    IN  upTo[Len(blocks)]

\* the least and the greatest of a non-empty sequence of numbers
RSeqMin(s) ==
    FoldOver(LAMBDA least, k : RMin(least, s[k]), s[1], 2, Len(s))
RSeqMax(s) ==
    FoldOver(LAMBDA greatest, k : RMax(greatest, s[k]), s[1], 2, Len(s))
RSum(s) ==
    FoldOver(LAMBDA total, k : RAdd(total, s[k]), RInt(0), 1, Len(s))

BoxOf(minX, minY, maxX, maxY) ==
    [ minX |-> minX, minY |-> minY, maxX |-> maxX, maxY |-> maxY,
      width |-> RSub(maxX, minX), height |-> RSub(maxY, minY) ]

Xs(stitches) == [i \in 1..Len(stitches) |-> stitches[i].position.x]
Ys(stitches) == [i \in 1..Len(stitches) |-> stitches[i].position.y]

calculateBoundingBox(stitches) ==
    IF Len(stitches) = 0
    THEN BoxOf(RInt(0), RInt(0), RInt(0), RInt(0))
    ELSE BoxOf(RSeqMin(Xs(stitches)), RSeqMin(Ys(stitches)),
               RSeqMax(Xs(stitches)), RSeqMax(Ys(stitches)))

\* the stitch lengths calculateDensityMetrics counts in one block: the
\* distance to stitch i from its predecessor, unless stitch i is a jump, trim
\* or stop
BlockLengths(ss) ==
    FoldOver(LAMBDA lengths, i :
                 IF ss[i].type \in {"jump", "trim", "stop"} THEN lengths
                 ELSE Append(lengths, distance(ss[i - 1].position, ss[i].position)),
             <<>>, 2, Len(ss))

AllLengths(blocks) ==
    LET upTo[k \in 0..Len(blocks)] ==
            IF k = 0 THEN <<>> ELSE upTo[k - 1] \o BlockLengths(blocks[k].stitches)
    IN  upTo[Len(blocks)]

ZeroMetrics(n) ==
    [ averageDensityMm |-> RInt(0), stitchesPerMm2 |-> RInt(0),
      minStitchLengthMm |-> RInt(0), maxStitchLengthMm |-> RInt(0),
      totalStitches |-> n ]

\* allStitches.length / areaMm2, or 0 when the area is not positive
StitchesPerArea(count, areaMm2) ==
    IF RLt(RInt(0), areaMm2) THEN RDiv(RInt(count), areaMm2) ELSE RInt(0)

BoxArea(bounds) == RMul(bounds.width, bounds.height)

\* the metrics of the stitches allStitches whose counted lengths are lengths
MetricsOf(allStitches, lengths) ==
    IF Len(allStitches) < 2 THEN ZeroMetrics(Len(allStitches))
    ELSE IF Len(lengths) = 0 THEN ZeroMetrics(Len(allStitches))
    ELSE [ averageDensityMm |-> RDiv(RSum(lengths), RInt(Len(lengths))),
           stitchesPerMm2 |->
               StitchesPerArea(Len(allStitches),
                               BoxArea(calculateBoundingBox(allStitches))),
           minStitchLengthMm |-> RSeqMin(lengths),
           maxStitchLengthMm |-> RSeqMax(lengths),
           totalStitches |-> Len(allStitches) ]

calculateDensityMetrics(colorBlocks) ==
    MetricsOf(Flatten(colorBlocks), AllLengths(colorBlocks))

calculateResizePercentage(original, newSize) ==
    IF original = RInt(0) THEN RInt(0)
    ELSE RMul(RDiv(RSub(newSize, original), original), RInt(100))

\* what calculateScaleFactor returns
ScaleResult(scale, newWidth, newHeight) ==
    [threw |-> FALSE, scale |-> scale, newWidth |-> newWidth, newHeight |-> newHeight]

\* { scale, newWidth: originalWidth * scale, newHeight: originalHeight * scale }
UniformScale(originalWidth, originalHeight, scale) ==
    ScaleResult(scale, RMul(originalWidth, scale), RMul(originalHeight, scale))

\* the branch of calculateScaleFactor for both targets given
FitBoth(originalWidth, originalHeight, targetWidth, targetHeight,
        preserveAspectRatio, scaleW, scaleH) ==
    IF preserveAspectRatio
    THEN UniformScale(originalWidth, originalHeight, RMin(scaleW, scaleH))
    ELSE ScaleResult(RDiv(RAdd(scaleW, scaleH), RInt(2)), targetWidth, targetHeight)

\* const { ..., preserveAspectRatio = true } = params
preserveAspectRatioOf(params) ==
    IF params.preserveAspectRatio = NONE THEN TRUE ELSE params.preserveAspectRatio[1]

\* params: [targetWidth, targetHeight, scalePercent: a rational or NONE,
\*          preserveAspectRatio: Some(b) or NONE (the default is true)]
calculateScaleFactor(originalWidth, originalHeight, params) ==
    IF params.scalePercent # NONE
    THEN UniformScale(originalWidth, originalHeight, RDiv(params.scalePercent, RInt(100)))
    ELSE IF params.targetWidth # NONE /\ params.targetHeight # NONE
    THEN FitBoth(originalWidth, originalHeight, params.targetWidth, params.targetHeight,
                 preserveAspectRatioOf(params),
                 RDiv(params.targetWidth, originalWidth),
                 RDiv(params.targetHeight, originalHeight))
    ELSE IF params.targetWidth # NONE
    THEN ScaleResult(RDiv(params.targetWidth, originalWidth),
                     params.targetWidth,
                     RMul(originalHeight, RDiv(params.targetWidth, originalWidth)))
    ELSE IF params.targetHeight # NONE
    THEN ScaleResult(RDiv(params.targetHeight, originalHeight),
                     RMul(originalWidth, RDiv(params.targetHeight, originalHeight)),
                     params.targetHeight)
    ELSE [ threw |-> TRUE,
           error |-> "Must specify targetWidth, targetHeight, or scalePercent" ]

(***************************************************************************)
(* engine/validator.ts                                                     *)
(* A ValidationResult keeps its level and canProceed; its message is kept  *)
(* as the name of the message template (the formatted numbers are left     *)
(* out), and details are left out.                                         *)
(***************************************************************************)
VALIDATION_THRESHOLDS ==
    [ SAFE_RESIZE_LIMIT |-> RInt(20),
      WARNING_RESIZE_LIMIT |-> RInt(30),
      CRITICAL_RESIZE_LIMIT |-> RInt(50),
      MIN_STITCH_DENSITY |-> Rat(2, 10),
      OPTIMAL_DENSITY_MIN |-> Rat(4, 10),
      OPTIMAL_DENSITY_MAX |-> Rat(45, 100),
      MAX_STITCH_DENSITY |-> RInt(1) ]

createValidationResult(level, message, canProceed) ==
    [level |-> level, message |-> message, canProceed |-> canProceed]

\* the grading with every limit excluded from the grade below it
resizeVerdictBelow(percentChange) ==
    IF RLt(percentChange, VALIDATION_THRESHOLDS.SAFE_RESIZE_LIMIT)
    THEN createValidationResult("safe", "resize within safe limits", TRUE)
    ELSE IF RLt(percentChange, VALIDATION_THRESHOLDS.WARNING_RESIZE_LIMIT)
    THEN createValidationResult("warning", "resize may affect quality", TRUE)
    ELSE IF RLt(percentChange, VALIDATION_THRESHOLDS.CRITICAL_RESIZE_LIMIT)
    THEN createValidationResult("danger", "resize is significant", TRUE)
    ELSE createValidationResult("critical", "resize is too extreme", FALSE)

\* the branches of validateResizePercentage on percentChange
resizeVerdict(percentChange) ==
    IF RLe(percentChange, VALIDATION_THRESHOLDS.SAFE_RESIZE_LIMIT)
    THEN createValidationResult("safe", "resize within safe limits", TRUE)
    ELSE IF RLe(percentChange, VALIDATION_THRESHOLDS.WARNING_RESIZE_LIMIT)
    THEN createValidationResult("warning", "resize may affect quality", TRUE)
    ELSE IF RLe(percentChange, VALIDATION_THRESHOLDS.CRITICAL_RESIZE_LIMIT)
    THEN createValidationResult("danger", "resize is significant", TRUE)
    ELSE createValidationResult("critical", "resize is too extreme", FALSE)

validateResizePercentage(originalSize, newSize) ==
    resizeVerdict(RAbs(calculateResizePercentage(originalSize, newSize)))

\* the grading with every limit moved to the other side of its comparison
densityVerdictShifted(densityMm) ==
    IF RLe(densityMm, VALIDATION_THRESHOLDS.MIN_STITCH_DENSITY)
    THEN createValidationResult("critical", "density too dense", FALSE)
    ELSE IF RLe(densityMm, VALIDATION_THRESHOLDS.OPTIMAL_DENSITY_MIN)
    THEN createValidationResult("warning", "density denser than optimal", TRUE)
    ELSE IF RLt(densityMm, VALIDATION_THRESHOLDS.OPTIMAL_DENSITY_MAX)
    THEN createValidationResult("safe", "density optimal", TRUE)
    ELSE IF RLt(densityMm, VALIDATION_THRESHOLDS.MAX_STITCH_DENSITY)
    THEN createValidationResult("warning", "density sparser than optimal", TRUE)
    ELSE createValidationResult("danger", "density too sparse", TRUE)

validateStitchDensity(densityMm) ==
    IF RLt(densityMm, VALIDATION_THRESHOLDS.MIN_STITCH_DENSITY)
    THEN createValidationResult("critical", "density too dense", FALSE)
    ELSE IF RLt(densityMm, VALIDATION_THRESHOLDS.OPTIMAL_DENSITY_MIN)
    THEN createValidationResult("warning", "density denser than optimal", TRUE)
    ELSE IF RLe(densityMm, VALIDATION_THRESHOLDS.OPTIMAL_DENSITY_MAX)
    THEN createValidationResult("safe", "density optimal", TRUE)
    ELSE IF RLe(densityMm, VALIDATION_THRESHOLDS.MAX_STITCH_DENSITY)
    THEN createValidationResult("warning", "density sparser than optimal", TRUE)
    ELSE createValidationResult("danger", "density too sparse", TRUE)

\* the grading that already blocks a design as large as the hoop
dimensionsVerdictAtLimit(width, height, machineProfile) ==
    IF RLe(machineProfile.maxHoopWidthMm, width)
    THEN createValidationResult("critical", "width exceeds maximum", FALSE)
    ELSE IF RLe(machineProfile.maxHoopHeightMm, height)
    THEN createValidationResult("critical", "height exceeds maximum", FALSE)
    ELSE IF \/ RLt(RSub(machineProfile.maxHoopWidthMm, width), RInt(5))
            \/ RLt(RSub(machineProfile.maxHoopHeightMm, height), RInt(5))
    THEN createValidationResult("warning", "close to hoop limits", TRUE)
    ELSE createValidationResult("safe", "dimensions fit", TRUE)

validateDimensions(width, height, machineProfile) ==
    IF RLt(machineProfile.maxHoopWidthMm, width)
    THEN createValidationResult("critical", "width exceeds maximum", FALSE)
    ELSE IF RLt(machineProfile.maxHoopHeightMm, height)
    THEN createValidationResult("critical", "height exceeds maximum", FALSE)
    ELSE IF \/ RLt(RSub(machineProfile.maxHoopWidthMm, width), RInt(5))
            \/ RLt(RSub(machineProfile.maxHoopHeightMm, height), RInt(5))
    THEN createValidationResult("warning", "close to hoop limits", TRUE)
    ELSE createValidationResult("safe", "dimensions fit", TRUE)

validateStitchLength(minLength, maxLength, machineProfile) ==
    IF RLt(machineProfile.maxStitchLengthMm, maxLength)
    THEN createValidationResult("danger", "maximum stitch length exceeds limit", TRUE)
    ELSE IF RLt(minLength, machineProfile.minStitchLengthMm)
    THEN createValidationResult("warning", "minimum stitch length below recommendation", TRUE)
    ELSE createValidationResult("safe", "stitch lengths acceptable", TRUE)

\* params: [originalWidth, originalHeight, newWidth, newHeight: numbers,
\*          newDensityMm, minStitchLength, maxStitchLength: a number or NONE,
\*          machineProfile]
\* { canProceed: results.every((r) => r.canProceed), results }
\* the verdict that lets the last validation alone decide
verdictOfLast(results) ==
    [ canProceed |-> results[Len(results)].canProceed,
      results |-> results ]

verdictOf(results) ==
    [ canProceed |-> \A i \in 1..Len(results) : results[i].canProceed,
      results |-> results ]

validateAll(params) ==
    verdictOf(
        << validateResizePercentage(params.originalWidth, params.newWidth),
           validateResizePercentage(params.originalHeight, params.newHeight) >>
        \o (IF params.newDensityMm # NONE
            THEN <<validateStitchDensity(params.newDensityMm)>>
            ELSE <<>>)
        \o << validateDimensions(params.newWidth, params.newHeight,
                                 params.machineProfile) >>
        \o (IF params.minStitchLength # NONE /\ params.maxStitchLength # NONE
            THEN <<validateStitchLength(params.minStitchLength, params.maxStitchLength,
                                        params.machineProfile)>>
            ELSE <<>>))

(***************************************************************************)
(* engine/simpleskale.ts                                                   *)
(***************************************************************************)
OPTIMAL_DENSITY == [MIN |-> Rat(4, 10), MAX |-> Rat(45, 100), TARGET |-> Rat(425, 1000)]

\* a special-stitch test that forgets the jump
isSpecialButJump(type) == type \in {"trim", "stop", "end"}

isSpecialStitch(type) == type \in {"trim", "stop", "end", "jump"}

scaleStitch(stitch, scale) ==
    [stitch EXCEPT !.position = Pt(RMul(stitch.position.x, scale),
                                   RMul(stitch.position.y, scale))]

scaleCoordinates(colorBlocks, scale) ==
    [b \in 1..Len(colorBlocks) |->
        [colorBlocks[b] EXCEPT !.stitches =
            [i \in 1..Len(colorBlocks[b].stitches) |->
                scaleStitch(colorBlocks[b].stitches[i], scale)]]]

\* distance(p1, p2) > r and distance(p1, p2) >= r for r >= 0, decided on the
\* squares
DistanceExceeds(p1, p2, r) == RLt(RMul(r, r), DistSq(p1, p2))
DistanceAtLeast(p1, p2, r) == RLe(RMul(r, r), DistSq(p1, p2))

\* Math.floor(distance(p1, p2) / unit): the largest n with (n*unit)^2 <= dx*dx + dy*dy
FloorDistanceOver(p1, p2, unit) == ISqrt(RFloor(RDiv(DistSq(p1, p2), RMul(unit, unit))))

\* the stitches pushed between current and next (the inner for loop, j = 1 .. n-1)
\* the inner loop run for j = 1 .. numNewStitches
interpolatedThroughEnd(current, next, numNewStitches) ==
    [j \in 1..numNewStitches |->
        [ position |-> interpolatePoint(current.position, next.position,
                                        Rat(j, numNewStitches)),
          type |-> current.type,
          colorIndex |-> current.colorIndex ]]

interpolatedStitches(current, next, numNewStitches) ==
    [j \in 1..(numNewStitches - 1) |->
        [ position |-> interpolatePoint(current.position, next.position,
                                        Rat(j, numNewStitches)),
          type |-> current.type,
          colorIndex |-> current.colorIndex ]]

\* what one iteration of the loop of addInterpolatedStitches pushes: current,
\* then the stitches interpolated towards next
pushedFor(current, next, targetDensityUnits) ==
    IF isSpecialStitch(current.type) THEN <<current>>
    ELSE IF DistanceExceeds(current.position, next.position,
                            RMul(targetDensityUnits, Rat(3, 2)))
    THEN <<current>> \o interpolatedStitches(current, next,
                            FloorDistanceOver(current.position, next.position,
                                              targetDensityUnits))
    ELSE <<current>>

\* newStitches after the iterations i = 1 .. n (1-based) of the loop
interpolateUpTo(stitches, n, targetDensityUnits) ==
    FoldOver(LAMBDA newStitches, i :
                 newStitches \o pushedFor(stitches[i], stitches[i + 1], targetDensityUnits),
             <<>>, 1, n)

addInterpolatedToBlock(block, targetDensityUnits) ==
    IF Len(block.stitches) < 2 THEN block
    ELSE [block EXCEPT !.stitches =
             interpolateUpTo(block.stitches, Len(block.stitches) - 1, targetDensityUnits)
             \o <<block.stitches[Len(block.stitches)]>>]

addInterpolatedStitches(colorBlocks, targetDensityMm) ==
    LET targetDensityUnits == RMul(targetDensityMm, RInt(10))
    IN  [b \in 1..Len(colorBlocks) |->
            addInterpolatedToBlock(colorBlocks[b], targetDensityUnits)]

\* a minimum distance of half the target
halfTargetDistance(targetDensityUnits) == RMul(targetDensityUnits, Rat(1, 2))

\* minDistance of removeExcessStitches
minDistanceOf(targetDensityUnits) == RMul(targetDensityUnits, Rat(7, 10))

\* one iteration of the loop of removeExcessStitches: newStitches after it
keepOrDrop(newStitches, current, minDistance) ==
    LET prev == newStitches[Len(newStitches)]
    IN  IF isSpecialStitch(current.type) THEN Append(newStitches, current)
        ELSE IF DistanceAtLeast(prev.position, current.position, minDistance)
        THEN Append(newStitches, current)
        ELSE newStitches

\* newStitches after the first stitch and the iterations up to stitch n
reduceUpTo(stitches, n, minDistance) ==
    FoldOver(LAMBDA newStitches, i : keepOrDrop(newStitches, stitches[i], minDistance),
             <<stitches[1]>>, 2, n)

removeExcessFromBlock(block, minDistance) ==
    IF Len(block.stitches) < 2 THEN block
    ELSE [block EXCEPT !.stitches =
             reduceUpTo(block.stitches, Len(block.stitches), minDistance)]

removeExcessStitches(colorBlocks, targetDensityMm) ==
    LET targetDensityUnits == RMul(targetDensityMm, RInt(10))
        minDistance == minDistanceOf(targetDensityUnits)
    IN  [b \in 1..Len(colorBlocks) |-> removeExcessFromBlock(colorBlocks[b], minDistance)]

\* gates that are not the code's: one that lets a failed validation through
\* in safe mode, and one that blocks a failed validation in every mode
blockedWhenValid(safeMode, canProceed) == safeMode /\ canProceed
blockedInEveryMode(safeMode, canProceed) == ~canProceed

\* the safe-mode gate of applyScaling
blockedBySafeMode(safeMode, canProceed) == safeMode /\ ~canProceed

\* metadata.scaleFactor of the scaled document
newScaleFactor(d, scale) == scale

\* the outcome of a call that handed the error back instead of raising it
returnedFailure(error) ==
    [ kind |-> "returned", success |-> FALSE, hasDesign |-> FALSE, design |-> NONE,
      validationResults |-> <<>>, error |-> error, steps |-> {"scaleFactor"} ]

\* the density-adjusting branch of applyScaling
adjustDensity(scaledBlocks, scale, targetDensityMm) ==
    IF RLt(RInt(1), scale) THEN addInterpolatedStitches(scaledBlocks, targetDensityMm)
    ELSE IF RLt(scale, RInt(1)) THEN removeExcessStitches(scaledBlocks, targetDensityMm)
    ELSE scaledBlocks

\* The outcome of a call of applyScaling is kind "thrown" (an exception left
\* the method) or "returned" (a SimpleSkaleResult); steps records which
\* stages of the method ran, and scale the scale factor it computed.
thrownOutcome(error) ==
    [ kind |-> "thrown", error |-> error, steps |-> {"scaleFactor"} ]

blockedOutcome(scale, v, beforeMetrics) ==
    [ kind |-> "returned",
      success |-> FALSE,
      hasDesign |-> FALSE,
      design |-> NONE,
      validationResults |-> v.results,
      beforeMetrics |-> beforeMetrics,
      afterMetrics |-> beforeMetrics,
      error |-> "Scaling operation blocked by safe mode. Validation failed.",
      scale |-> scale,
      validated |-> v,
      steps |-> {"scaleFactor", "metrics", "validation"} ]

\* scaledDesign of applyScaling
\* a document whose metadata describes the document scaled, not the import
scaledDesignFromPrior(d, scale, finalBlocks, afterMetrics, newId, now) ==
    [d EXCEPT !.id = newId,
              !.colorBlocks = finalBlocks,
              !.metadata = [d.metadata EXCEPT
                               !.originalStitchCount = d.metadata.currentStitchCount,
                               !.scaleFactor = newScaleFactor(d, scale),
                               !.currentStitchCount = afterMetrics.totalStitches,
                               !.modifiedAt = now]]

scaledDesignOf(d, scale, finalBlocks, afterMetrics, newId, now) ==
    [d EXCEPT !.id = newId,
              !.colorBlocks = finalBlocks,
              !.metadata = [d.metadata EXCEPT
                               !.scaleFactor = newScaleFactor(d, scale),
                               !.currentStitchCount = afterMetrics.totalStitches,
                               !.modifiedAt = now]]

scaledOutcome(d, scale, v, beforeMetrics, finalBlocks, afterMetrics, newId, now) ==
    [ kind |-> "returned",
      success |-> TRUE,
      hasDesign |-> TRUE,
      design |-> scaledDesignOf(d, scale, finalBlocks, afterMetrics, newId, now),
      validationResults |-> v.results,
      beforeMetrics |-> beforeMetrics,
      afterMetrics |-> afterMetrics,
      error |-> NONE,
      scale |-> scale,
      validated |-> v,
      steps |-> {"scaleFactor", "metrics", "validation", "transform"} ]

\* applyScaling from "Step 1" on: finalBlocks are the scaled, resampled blocks
transformStage(d, cfg, scale, v, beforeMetrics, finalBlocks, newId, now) ==
    scaledOutcome(d, scale, v, beforeMetrics, finalBlocks,
                  calculateDensityMetrics(finalBlocks), newId, now)

\* applyScaling from the safe-mode gate on: v is what validateAll returned
gateStage(d, cfg, scale, v, beforeMetrics, newId, now) ==
    IF blockedBySafeMode(cfg.safeMode, v.canProceed)
    THEN blockedOutcome(scale, v, beforeMetrics)
    ELSE transformStage(d, cfg, scale, v, beforeMetrics,
                        adjustDensity(scaleCoordinates(d.colorBlocks, scale), scale,
                                      cfg.targetDensityMm),
                        newId, now)

\* applyScaling from the validation on
validationStage(d, cfg, sf, beforeMetrics, newId, now) ==
    gateStage(d, cfg, sf.scale,
              validateAll([ originalWidth |-> d.metadata.originalWidthMm,
                            originalHeight |-> d.metadata.originalHeightMm,
                            newWidth |-> sf.newWidth,
                            newHeight |-> sf.newHeight,
                            newDensityMm |-> RMul(beforeMetrics.averageDensityMm, sf.scale),
                            minStitchLength |->
                                RMul(beforeMetrics.minStitchLengthMm, sf.scale),
                            maxStitchLength |->
                                RMul(beforeMetrics.maxStitchLengthMm, sf.scale),
                            machineProfile |-> d.machineProfile ]),
              beforeMetrics, newId, now)

\* applyScaling after calculateScaleFactor, which returned or threw sf
metricsStage(d, cfg, sf, newId, now) ==
    IF sf.threw THEN thrownOutcome(sf.error)
    ELSE validationStage(d, cfg, sf, calculateDensityMetrics(d.colorBlocks), newId, now)

\* applyScaling(design, params) on an engine with config cfg.  newId is the
\* crypto.randomUUID() and now the new Date() of this call.
applyScaling(d, params, cfg, newId, now) ==
    metricsStage(d, cfg,
                 calculateScaleFactor(d.metadata.originalWidthMm,
                                      d.metadata.originalHeightMm,
                                      [ targetWidth |-> params.targetWidth,
                                        targetHeight |-> params.targetHeight,
                                        scalePercent |-> params.scalePercent,
                                        preserveAspectRatio |->
                                            params.preserveAspectRatio ]),
                 newId, now)

(***************************************************************************)
(* The documents the engine is run on.  A document is what a caller builds *)
(* (App.tsx createTestDesign) or a parser returns: scaleFactor 1, both     *)
(* stitch counts the number of stitches, integer positions in 1/10 mm.     *)
(***************************************************************************)
TotalStitches(blocks) == Len(Flatten(blocks))

MakeDesign(colorBlocks, widthMm, heightMm) ==
    [ id |-> 0,
      name |-> <<84, 101, 115, 116, 32, 80, 97, 116, 116, 101, 114, 110>>,  \* "Test Pattern"
      originalFormat |-> "DEMO",
      colorBlocks |-> colorBlocks,
      threads |-> << [color |-> "#ff0000", colorName |-> "Red", brand |-> "Brother"],
                     [color |-> "#0000ff", colorName |-> "Blue", brand |-> "Brother"] >>,
      machineProfile |-> BROTHER_PP1_PROFILE,
      metadata |-> [ originalWidthMm |-> widthMm,
                     originalHeightMm |-> heightMm,
                     scaleFactor |-> RInt(1),
                     originalStitchCount |-> TotalStitches(colorBlocks),
                     currentStitchCount |-> TotalStitches(colorBlocks),
                     modifiedAt |-> 0 ] ]

\* where the stitches of a generated block fall, the first at the origin
PathPoints == << <<0, 0>>, <<3, 4>>, <<12, 0>>, <<12, 9>>, <<14, 9>>, <<14, 2>> >>
\* the types of the stitches after the first
PathTypes == {"run", "jump"}

\* the block of n + 1 stitches along the path, the later ones of the given types
BlockAlong(n, types) ==
    [ colorIndex |-> 0,
      stitches |-> [i \in 1..(n + 1) |->
                       St(PathPoints[i][1], PathPoints[i][2],
                          IF i = 1 THEN "run" ELSE types[i - 1], 0)] ]

\* blocks of 1 .. MaxLen + 1 stitches along the path
GeneratedBlocks ==
    UNION { { BlockAlong(n, types) : types \in [1..n -> PathTypes] } : n \in 0..MaxLen }

\* a two-colour document: the second block is opened by a stop marker (as the
\* parsers open every block after a color change) and closed by a trim and
\* an end
TwoBlocks ==
    << [colorIndex |-> 0,
        stitches |-> << St(0, 0, "run", 0), St(3, 4, "run", 0),
                        St(12, 0, "satin", 0), St(12, 9, "jump", 0) >>],
       [colorIndex |-> 1,
        stitches |-> << St(12, 9, "stop", 1), St(20, 15, "run", 1),
                        St(21, 15, "run", 1), St(21, 15, "trim", 1),
                        St(0, 0, "end", 1) >>] >>

\* a document built by hand whose second block holds no stitch (ColorBlock
\* admits an empty stitches array)
WithEmptyBlock ==
    << [colorIndex |-> 0,
        stitches |-> << St(0, 0, "run", 0), St(3, 4, "run", 0), St(12, 0, "run", 0) >>],
       [colorIndex |-> 1, stitches |-> <<>>] >>

\* one straight stitch of 5 mm
LongStitch ==
    << [colorIndex |-> 0, stitches |-> << St(0, 0, "run", 0), St(50, 0, "run", 0) >>] >>

InitialDesigns ==
    { MakeDesign(<<b>>, RInt(15), RInt(15)) : b \in GeneratedBlocks }
    \cup { MakeDesign(TwoBlocks, RInt(15), RInt(15)),
           MakeDesign(TwoBlocks, RInt(100), RInt(60)),
           MakeDesign(WithEmptyBlock, RInt(15), RInt(15)),
           MakeDesign(LongStitch, RInt(15), RInt(15)) }

\* new SimpleSkaleEngine(config): safeMode defaults to true, the machine
\* profile is set from the design on the first call
EngineConfigs ==
    { [targetDensityMm |-> OPTIMAL_DENSITY.TARGET, safeMode |-> sm,
       machineProfile |-> NONE] : sm \in BOOLEAN }

NoResult == [kind |-> "none"]
NoCall == [scalePercent |-> NONE, targetWidth |-> NONE, targetHeight |-> NONE,
           preserveAspectRatio |-> NONE]

ScalePercents == {50, 100, 150, 200}
\* <<targetWidth, targetHeight, preserveAspectRatio>> of the calls by target size
TargetSizes ==
    { <<RInt(30), RInt(18), NONE>>, <<RInt(30), RInt(18), Some(FALSE)>>,
      <<RInt(30), NONE, NONE>>, <<NONE, RInt(18), Some(TRUE)>> }

EngineIdle ==
    /\ design = NONE
    /\ imported = NONE
    /\ input = NONE
    /\ config = NONE
    /\ call = NoCall
    /\ result = NoResult
    /\ calls = 0

SizingIdle ==
    /\ sizing = NONE
    /\ sized = <<>>

ValidatorIdle ==
    /\ checking = NONE
    /\ checked = <<>>

CodecIdle ==
    /\ cdoc = NONE
    /\ cfmt = "none"
    /\ cfile = <<>>
    /\ cout = <<>>

\* no call made yet
NoOutcome == [kind |-> "none", success |-> FALSE, designAt |-> 0]

StoreIdle ==
    /\ heap = <<>>
    /\ held = 0
    /\ given = 0
    /\ atCall = <<>>
    /\ returned = NoOutcome
    /\ hcalls = 0

\* no part but the one named is in use
ImportIdle ==
    /\ ibuf = <<>>
    /\ iname = NONE
    /\ ivia = "none"
    /\ iout = <<>>
NoRead == [op |-> "none", at |-> 0, width |-> 0, outcome |-> [kind |-> "none", value |-> 0]]
ReaderIdle ==
    /\ rbuf = <<>>
    /\ roff = 0
    /\ rlast = NoRead

JumpIdle ==
    /\ jfmt = "none"
    /\ jdx = 0
    /\ jdy = 0
    /\ jremX = 0
    /\ jremY = 0
    /\ jsteps = <<>>
    /\ jpc = "done"

AppIdle ==
    /\ uOriginal = NONE
    /\ uScaled = NONE
    /\ uScale = 0
    /\ uResults = <<>>
    /\ uIsScaling = FALSE
    /\ uTimer = NONE
    /\ uLoads = 0

OnlyEngine ==
    SizingIdle /\ CodecIdle /\ ValidatorIdle /\ StoreIdle /\ ImportIdle /\ ReaderIdle /\ JumpIdle
    /\ AppIdle
OnlySizing ==
    EngineIdle /\ CodecIdle /\ ValidatorIdle /\ StoreIdle /\ ImportIdle /\ ReaderIdle /\ JumpIdle
    /\ AppIdle
OnlyCodec ==
    EngineIdle /\ SizingIdle /\ ValidatorIdle /\ StoreIdle /\ ImportIdle /\ ReaderIdle /\ JumpIdle
    /\ AppIdle
OnlyValidator ==
    EngineIdle /\ SizingIdle /\ CodecIdle /\ StoreIdle /\ ImportIdle /\ ReaderIdle /\ JumpIdle
    /\ AppIdle
OnlyStore ==
    EngineIdle /\ SizingIdle /\ CodecIdle /\ ValidatorIdle /\ ImportIdle /\ ReaderIdle /\ JumpIdle
    /\ AppIdle
OnlyImport ==
    EngineIdle /\ SizingIdle /\ CodecIdle /\ ValidatorIdle /\ StoreIdle /\ ReaderIdle /\ JumpIdle
    /\ AppIdle
OnlyReader ==
    EngineIdle /\ SizingIdle /\ CodecIdle /\ ValidatorIdle /\ StoreIdle /\ ImportIdle /\ JumpIdle
    /\ AppIdle
OnlyJump ==
    EngineIdle /\ SizingIdle /\ CodecIdle /\ ValidatorIdle /\ StoreIdle /\ ImportIdle /\ ReaderIdle
    /\ AppIdle
OnlyApp ==
    EngineIdle /\ SizingIdle /\ CodecIdle /\ ValidatorIdle /\ StoreIdle /\ ImportIdle /\ ReaderIdle
    /\ JumpIdle

Init ==
    /\ design \in InitialDesigns
    /\ imported = design
    /\ input = design
    /\ config \in EngineConfigs
    /\ call = NoCall
    /\ result = NoResult
    /\ calls = 0
    /\ OnlyEngine

\* one call engine.applyScaling(design, params); the caller goes on with the
\* scaled document when there is one
Rescale(params) ==
    /\ \E r \in { applyScaling(design, params, config, calls + 1, calls + 1) } :
           /\ result' = r
           /\ design' = IF r.kind = "returned" /\ r.success THEN r.design ELSE design
    /\ input' = design
    /\ call' = params
    /\ calls' = calls + 1
    /\ config' = [config EXCEPT !.machineProfile = design.machineProfile]
    /\ UNCHANGED <<imported, notEngine>>

\* the callers: each makes a call while fewer than MaxCalls were made
RescalePercent ==
    /\ calls < MaxCalls
    /\ \E p \in ScalePercents :
           Rescale([ scalePercent |-> RInt(p), targetWidth |-> NONE,
                     targetHeight |-> NONE, preserveAspectRatio |-> NONE ])

RescaleToTarget ==
    /\ calls < MaxCalls
    /\ \E t \in TargetSizes :
           Rescale([ scalePercent |-> NONE, targetWidth |-> t[1],
                     targetHeight |-> t[2], preserveAspectRatio |-> t[3] ])

RescaleNoParams ==
    /\ calls < MaxCalls
    /\ Rescale([ scalePercent |-> NONE, targetWidth |-> NONE,
                 targetHeight |-> NONE, preserveAspectRatio |-> NONE ])

Next == RescalePercent \/ RescaleToTarget \/ RescaleNoParams

Spec == Init /\ [][Next]_vars

(***************************************************************************)
(* The engine on a heap of objects.  A JavaScript object or array is an    *)
(* entry of the heap and its identity is its address, the entry's index;   *)
(* a property that holds an object holds its address.  An object literal,  *)
(* a spread and a map allocate; an assignment to a property and a push     *)
(* write the entry they are made on.  What the numbers are is taken from   *)
(* the operators above, applied to the values read from the heap.  A loop  *)
(* is a function upTo of the number of turns taken, each turn computed on  *)
(* the outcome of the turn before.                                         *)
(***************************************************************************)
PointObject(x, y) == [kind |-> "point", x |-> x, y |-> y]
StitchObject(positionAt, type, colorIndex) ==
    [kind |-> "stitch", position |-> positionAt, type |-> type, colorIndex |-> colorIndex]
ArrayObject(kind, items) == [kind |-> kind, items |-> items]

\* the value held by the object at address a of heap h
pointAt(h, a) == Pt(h[a].x, h[a].y)
stitchAt(h, a) ==
    [ position |-> pointAt(h, h[a].position),
      type |-> h[a].type,
      colorIndex |-> h[a].colorIndex ]
stitchesAt(h, a) == [i \in 1..Len(h[a].items) |-> stitchAt(h, h[a].items[i])]
blockAt(h, a) ==
    [colorIndex |-> h[a].colorIndex, stitches |-> stitchesAt(h, h[a].stitches)]
blocksAt(h, a) == [i \in 1..Len(h[a].items) |-> blockAt(h, h[a].items[i])]
documentAt(h, a) ==
    [ id |-> h[a].id,
      name |-> h[a].name,
      originalFormat |-> h[a].originalFormat,
      colorBlocks |-> blocksAt(h, h[a].colorBlocks),
      threads |-> h[h[a].threads].value,
      machineProfile |-> h[h[a].machineProfile].value,
      metadata |-> h[h[a].metadata].value ]

\* the addresses of the Stitch objects, and of all objects, of the document at a
BlockObjects(h, blocksAddr) == { h[blocksAddr].items[i] : i \in 1..Len(h[blocksAddr].items) }
StitchObjectsOf(h, b) ==
    { h[h[b].stitches].items[i] : i \in 1..Len(h[h[b].stitches].items) }
StitchObjectsUnder(h, blocksAddr) ==
    UNION { StitchObjectsOf(h, b) : b \in BlockObjects(h, blocksAddr) }
ObjectsUnder(h, blocksAddr) ==
    {blocksAddr} \cup BlockObjects(h, blocksAddr)
    \cup { h[b].stitches : b \in BlockObjects(h, blocksAddr) }
    \cup StitchObjectsUnder(h, blocksAddr)
    \cup { h[s].position : s \in StitchObjectsUnder(h, blocksAddr) }
ObjectsOf(h, a) ==
    {a, h[a].threads, h[a].machineProfile, h[a].metadata}
    \cup ObjectsUnder(h, h[a].colorBlocks)

\* a document as its producer leaves it on the heap: every stitch, point,
\* block and array an object of its own
storeStitch(h, st) ==
    h \o << PointObject(st.position.x, st.position.y),
            StitchObject(Len(h) + 1, st.type, st.colorIndex) >>

storedStitch(m, st) ==
    [heap |-> storeStitch(m.heap, st), items |-> Append(m.items, Len(m.heap) + 2)]

storeStitches(h, stitches) ==
    FoldOver(LAMBDA m, i : storedStitch(m, stitches[i]),
             [heap |-> h, items |-> <<>>], 1, Len(stitches))

\* the block object over the stitches stored as m; source gives its other
\* properties
blockOver(m, source) ==
    [ heap |-> m.heap \o << ArrayObject("stitches", m.items),
                            [kind |-> "block", colorIndex |-> source.colorIndex,
                             stitches |-> Len(m.heap) + 1] >>,
      at |-> Len(m.heap) + 2 ]

storeBlock(h, block) == blockOver(storeStitches(h, block.stitches), block)

\* the object at r.at joins the items collected so far
collected(r, items) == [heap |-> r.heap, items |-> Append(items, r.at)]

storeBlocks(h, blocks) ==
    LET upTo[i \in 0..Len(blocks)] ==
            IF i = 0 THEN [heap |-> h, items |-> <<>>]
            ELSE CHOOSE next \in { collected(storeBlock(m.heap, blocks[i]), m.items) :
                                     m \in {upTo[i - 1]} } : TRUE
    IN  upTo[Len(blocks)]

documentOver(m, doc) ==
    m.heap \o << ArrayObject("blocks", m.items),
                 [kind |-> "threads", value |-> doc.threads],
                 [kind |-> "profile", value |-> doc.machineProfile],
                 [kind |-> "metadata", value |-> doc.metadata],
                 [ kind |-> "document", id |-> doc.id, name |-> doc.name,
                   originalFormat |-> doc.originalFormat,
                   colorBlocks |-> Len(m.heap) + 1,
                   threads |-> Len(m.heap) + 2,
                   machineProfile |-> Len(m.heap) + 3,
                   metadata |-> Len(m.heap) + 4 ] >>

\* the heap with doc stored after what h holds; the document is the last object
storeDocument(h, doc) == documentOver(storeBlocks(h, doc.colorBlocks), doc)

\* this.config of a new SimpleSkaleEngine: machineProfile null (address 0)
ConfigObject(cfg) ==
    [ kind |-> "config", targetDensityMm |-> cfg.targetDensityMm,
      safeMode |-> cfg.safeMode, machineProfile |-> 0 ]

ConfigIn(h) == CHOOSE a \in 1..Len(h) : h[a].kind = "config"

\* newStitches.push(x) on the array at arr
push(h, arr, x) == [h EXCEPT ![arr].items = Append(@, x)]

\* newStitches.push({ position, type, colorIndex }) of a new stitch
pushNew(h, arr, st) == push(storeStitch(h, st), arr, Len(h) + 2)

pushAllNew(h, arr, stitches) ==
    FoldOver(LAMBDA m, i : pushNew(m, arr, stitches[i]), h, 1, Len(stitches))

\* scaleCoordinates written over the objects it is given: every position is
\* assigned in place and the same array is returned
scaleCoordinatesInPlace(h, blocksAddr, scale) ==
    [ heap |-> [a \in 1..Len(h) |->
                   IF a \in { h[s].position : s \in StitchObjectsUnder(h, blocksAddr) }
                   THEN PointObject(RMul(h[a].x, scale), RMul(h[a].y, scale))
                   ELSE h[a]],
      at |-> blocksAddr ]

\* ({ ...stitch, position: { x: ..., y: ... } }) for the stitch at s
scaleStitchAt(m, s, scale) ==
    [ heap |-> m.heap \o << PointObject(RMul(m.heap[m.heap[s].position].x, scale),
                                        RMul(m.heap[m.heap[s].position].y, scale)),
                            [m.heap[s] EXCEPT !.position = Len(m.heap) + 1] >>,
      items |-> Append(m.items, Len(m.heap) + 2) ]

\* block.stitches.map(...)
scaleStitchesAt(h, items, scale) ==
    FoldOver(LAMBDA m, i : scaleStitchAt(m, items[i], scale),
             [heap |-> h, items |-> <<>>], 1, Len(items))

\* ({ ...block, stitches }) over the stitches collected as m
blockCopyOver(m, b) ==
    [ heap |-> m.heap \o << ArrayObject("stitches", m.items),
                            [m.heap[b] EXCEPT !.stitches = Len(m.heap) + 1] >>,
      at |-> Len(m.heap) + 2 ]

scaleBlockAt(h, b, scale) ==
    blockCopyOver(scaleStitchesAt(h, h[h[b].stitches].items, scale), b)

\* the array a map returns, over the objects collected as m
arrayOver(m) ==
    [heap |-> Append(m.heap, ArrayObject("blocks", m.items)), at |-> Len(m.heap) + 1]

\* scaleCoordinates(colorBlocks, scale), colorBlocks the array at blocksAddr
scaleCoordinatesAt(h, blocksAddr, scale) ==
    LET upTo[i \in 0..Len(h[blocksAddr].items)] ==
            IF i = 0 THEN [heap |-> h, items |-> <<>>]
            ELSE CHOOSE next \in
                     { collected(scaleBlockAt(m.heap, h[blocksAddr].items[i], scale),
                                 m.items) : m \in {upTo[i - 1]} } : TRUE
    IN  arrayOver(upTo[Len(h[blocksAddr].items)])

\* one turn of the loop of addInterpolatedStitches: current is pushed, then
\* the new stitches between current and next
interpolateTurnAt(h, arr, current, next, targetDensityUnits) ==
    pushAllNew(push(h, arr, current), arr,
               Tail(pushedFor(stitchAt(h, current), stitchAt(h, next),
                              targetDensityUnits)))

\* the loop over the stitches at items and the push of the last one, on the
\* new array at arr
interpolateLoopAt(h, arr, items, targetDensityUnits) ==
    push(FoldOver(LAMBDA m, i : interpolateTurnAt(m, arr, items[i], items[i + 1],
                                                  targetDensityUnits),
                  h, 1, Len(items) - 1),
         arr, items[Len(items)])

\* ({ ...block, stitches: newStitches }), newStitches the array at arr
blockWith(h, b, arr) ==
    [heap |-> Append(h, [h[b] EXCEPT !.stitches = arr]), at |-> Len(h) + 1]

addInterpolatedToBlockAt(h, b, targetDensityUnits) ==
    IF Len(h[h[b].stitches].items) < 2 THEN [heap |-> h, at |-> b]
    ELSE blockWith(interpolateLoopAt(Append(h, ArrayObject("stitches", <<>>)),
                                     Len(h) + 1, h[h[b].stitches].items,
                                     targetDensityUnits),
                   b, Len(h) + 1)

addInterpolatedStitchesAt(h, blocksAddr, targetDensityMm) ==
    LET upTo[i \in 0..Len(h[blocksAddr].items)] ==
            IF i = 0 THEN [heap |-> h, items |-> <<>>]
            ELSE CHOOSE next \in
                     { collected(addInterpolatedToBlockAt(m.heap, h[blocksAddr].items[i],
                                     RMul(targetDensityMm, RInt(10))),
                                 m.items) : m \in {upTo[i - 1]} } : TRUE
    IN  arrayOver(upTo[Len(h[blocksAddr].items)])

\* const prev = newStitches[newStitches.length - 1]
lastPushed(h, arr) == h[arr].items[Len(h[arr].items)]

\* one turn of the loop of removeExcessStitches
keepOrDropAt(h, arr, current, minDistance) ==
    IF isSpecialStitch(h[current].type) THEN push(h, arr, current)
    ELSE IF DistanceAtLeast(pointAt(h, h[lastPushed(h, arr)].position),
                            pointAt(h, h[current].position), minDistance)
    THEN push(h, arr, current)
    ELSE h

reduceLoopAt(h, arr, items, minDistance) ==
    FoldOver(LAMBDA m, i : keepOrDropAt(m, arr, items[i], minDistance),
             push(h, arr, items[1]), 2, Len(items))

removeExcessFromBlockAt(h, b, minDistance) ==
    IF Len(h[h[b].stitches].items) < 2 THEN [heap |-> h, at |-> b]
    ELSE blockWith(reduceLoopAt(Append(h, ArrayObject("stitches", <<>>)),
                                Len(h) + 1, h[h[b].stitches].items, minDistance),
                   b, Len(h) + 1)

removeExcessStitchesAt(h, blocksAddr, targetDensityMm) ==
    LET upTo[i \in 0..Len(h[blocksAddr].items)] ==
            IF i = 0 THEN [heap |-> h, items |-> <<>>]
            ELSE CHOOSE next \in
                     { collected(removeExcessFromBlockAt(m.heap, h[blocksAddr].items[i],
                                     minDistanceOf(RMul(targetDensityMm, RInt(10)))),
                                 m.items) : m \in {upTo[i - 1]} } : TRUE
    IN  arrayOver(upTo[Len(h[blocksAddr].items)])

\* Step 2 of applyScaling on the scaled blocks at m.at
adjustDensityAt(m, scale, targetDensityMm) ==
    IF RLt(RInt(1), scale) THEN addInterpolatedStitchesAt(m.heap, m.at, targetDensityMm)
    ELSE IF RLt(scale, RInt(1)) THEN removeExcessStitchesAt(m.heap, m.at, targetDensityMm)
    ELSE m

\* what a call leaves: the heap and the outcome, designAt the address of
\* result.design (0 when there is none)
Left(h, kind, success, designAt) ==
    [ heap |-> h,
      outcome |-> [kind |-> kind, success |-> success, designAt |-> designAt] ]

\* scaledDesign = { ...design, id, colorBlocks: finalBlocks, metadata: { ... } }
scaledDesignAt(m, d, scale, newId, now) ==
    Left(m.heap \o
           << [ kind |-> "metadata",
                value |-> [m.heap[m.heap[d].metadata].value EXCEPT
                              !.scaleFactor = scale,
                              !.currentStitchCount =
                                  calculateDensityMetrics(blocksAt(m.heap, m.at)).totalStitches,
                              !.modifiedAt = now] ],
              [m.heap[d] EXCEPT !.id = newId,
                                !.colorBlocks = m.at,
                                !.metadata = Len(m.heap) + 1] >>,
         "returned", TRUE, Len(m.heap) + 2)

gateAt(h, cfgAt, d, scale, v, newId, now) ==
    IF blockedBySafeMode(h[cfgAt].safeMode, v.canProceed)
    THEN Left(h, "returned", FALSE, 0)
    ELSE scaledDesignAt(adjustDensityAt(scaleCoordinatesAt(h, h[d].colorBlocks, scale),
                                        scale, h[cfgAt].targetDensityMm),
                        d, scale, newId, now)

validationAt(h, cfgAt, d, md, sf, beforeMetrics, newId, now) ==
    gateAt(h, cfgAt, d, sf.scale,
           validateAll([ originalWidth |-> md.originalWidthMm,
                         originalHeight |-> md.originalHeightMm,
                         newWidth |-> sf.newWidth,
                         newHeight |-> sf.newHeight,
                         newDensityMm |-> RMul(beforeMetrics.averageDensityMm, sf.scale),
                         minStitchLength |-> RMul(beforeMetrics.minStitchLengthMm, sf.scale),
                         maxStitchLength |-> RMul(beforeMetrics.maxStitchLengthMm, sf.scale),
                         machineProfile |-> h[h[cfgAt].machineProfile].value ]),
           newId, now)

metricsAt(h, cfgAt, d, sf, newId, now) ==
    IF sf.threw THEN Left(h, "thrown", FALSE, 0)
    ELSE validationAt(h, cfgAt, d, h[h[d].metadata].value, sf,
                      calculateDensityMetrics(blocksAt(h, h[d].colorBlocks)), newId, now)

\* applyScaling once this.config.machineProfile = design.machineProfile is done
configuredAt(h, cfgAt, d, params, newId, now) ==
    metricsAt(h, cfgAt, d,
              calculateScaleFactor(h[h[d].metadata].value.originalWidthMm,
                                   h[h[d].metadata].value.originalHeightMm,
                                   [ targetWidth |-> params.targetWidth,
                                     targetHeight |-> params.targetHeight,
                                     scalePercent |-> params.scalePercent,
                                     preserveAspectRatio |-> params.preserveAspectRatio ]),
              newId, now)

\* engine.applyScaling(design, params): design the document at d, the
\* engine's config the object at cfgAt
applyScalingAt(h, cfgAt, d, params, newId, now) ==
    configuredAt([h EXCEPT ![cfgAt].machineProfile = h[d].machineProfile],
                 cfgAt, d, params, newId, now)

StoreInit ==
    /\ OnlyStore
    /\ \E doc \in InitialDesigns, cfg \in EngineConfigs :
           heap = storeDocument(<<ConfigObject(cfg)>>, doc)
    /\ held = Len(heap)
    /\ given = 0
    /\ atCall = heap
    /\ returned = NoOutcome
    /\ hcalls = 0

\* one call engine.applyScaling(design, params) on the document held; the
\* caller goes on with result.design when there is one
RescaleAt(params) ==
    /\ \E r \in { applyScalingAt(heap, ConfigIn(heap), held, params,
                                 hcalls + 1, hcalls + 1) } :
           /\ heap' = r.heap
           /\ returned' = r.outcome
           /\ held' = IF r.outcome.success THEN r.outcome.designAt ELSE held
    /\ given' = held
    /\ atCall' = heap
    /\ hcalls' = hcalls + 1
    /\ UNCHANGED notStore

RescaleAtPercent ==
    /\ hcalls < MaxCalls
    /\ \E p \in ScalePercents :
           RescaleAt([ scalePercent |-> RInt(p), targetWidth |-> NONE,
                       targetHeight |-> NONE, preserveAspectRatio |-> NONE ])

RescaleAtNoParams ==
    /\ hcalls < MaxCalls
    /\ RescaleAt([ scalePercent |-> NONE, targetWidth |-> NONE,
                   targetHeight |-> NONE, preserveAspectRatio |-> NONE ])

StoreNext == RescaleAtPercent \/ RescaleAtNoParams

StoreSpec == StoreInit /\ [][StoreNext]_vars

(***************************************************************************)
(* Buffers and text.  A buffer is a sequence of bytes 0 .. 255, addressed  *)
(* by offsets from 0.  A string that is written to a buffer, read from one *)
(* or matched in one is the sequence of its character codes.               *)
(***************************************************************************)
\* byte & mask # 0, for a mask of one bit
Bit(byte, mask) == (byte \div mask) % 2 = 1
OrBit(a, b, mask) == IF Bit(a, mask) \/ Bit(b, mask) THEN mask ELSE 0
\* a | b on bytes
BitOr(a, b) ==
    OrBit(a, b, 1) + OrBit(a, b, 2) + OrBit(a, b, 4) + OrBit(a, b, 8)
    + OrBit(a, b, 16) + OrBit(a, b, 32) + OrBit(a, b, 64) + OrBit(a, b, 128)

\* Math.round of a number: the nearest integer, a half rounded up
RRound(a) == (2 * a[1] + a[2]) \div (2 * a[2])

\* Number.prototype.toString of an integer n >= 0
Digits[n \in Nat] == IF n < 10 THEN <<48 + n>> ELSE Append(Digits[n \div 10], 48 + (n % 10))
toString(n) == Digits[n]
\* String.prototype.padStart
padStart(str, targetLength, padChar) ==
    IF Len(str) >= targetLength THEN str
    ELSE [i \in 1..targetLength |->
             IF i <= targetLength - Len(str) THEN padChar
             ELSE str[i - (targetLength - Len(str))]]
\* str.substring(0, end)
substring(str, end) == SubSeq(str, 1, IF end < Len(str) THEN end ELSE Len(str))

\* white space as \s and String.prototype.trim take it, among the codes 0 .. 255
IsSpace(c) == c \in {9, 10, 11, 12, 13, 32, 160}
IsDigit(c) == c \in 48..57
\* pattern occurs in text at index i
StartsAt(text, i, pattern) ==
    /\ i + Len(pattern) - 1 <= Len(text)
    /\ \A k \in 1..Len(pattern) : text[i + k - 1] = pattern[k]
\* the first index from `from` on that holds no white space (no digit; a
\* line break); Len(text) + 1 when there is none
SkipSpaces(text, from) ==
    CHOOSE i \in from..(Len(text) + 1) :
        /\ i = Len(text) + 1 \/ ~IsSpace(text[i])
        /\ \A j \in from..(i - 1) : IsSpace(text[j])
SkipDigits(text, from) ==
    CHOOSE i \in from..(Len(text) + 1) :
        /\ i = Len(text) + 1 \/ ~IsDigit(text[i])
        /\ \A j \in from..(i - 1) : IsDigit(text[j])
LineEnd(text, from) ==
    CHOOSE i \in from..(Len(text) + 1) :
        /\ i = Len(text) + 1 \/ text[i] \in {10, 13}
        /\ \A j \in from..(i - 1) : text[j] \notin {10, 13}
\* the last index in from .. to that holds no white space (text[from] holds none)
TrimEnd(text, from, to) ==
    CHOOSE i \in from..to :
        /\ ~IsSpace(text[i])
        /\ \A j \in (i + 1)..to : IsSpace(text[j])
\* parseInt of the digits text[from .. to]
parseInt(text, from, to) ==
    LET upTo[k \in (from - 1)..to] ==
            IF k < from THEN 0 ELSE upTo[k - 1] * 10 + (text[k] - 48)
    IN  upTo[to]

(***************************************************************************)
(* lib/binaryWriter.ts: what each call appends to the buffer               *)
(***************************************************************************)
writeUInt8(value) == <<value % 256>>
writeUInt32LE(value) ==
    << value % 256, (value \div 256) % 256, (value \div 65536) % 256,
       (value \div 16777216) % 256 >>
writeFixedString(str, length, padChar) ==
    [i \in 1..length |-> IF i <= Len(str) THEN str[i] ELSE padChar]
writePadding(length, value) == [i \in 1..length |-> value]
\* writePadding(position - getPosition(), value) after layout has been written
PaddedTo(layout, position, value) ==
    layout \o writePadding(position - Len(layout), value)

(***************************************************************************)
(* lib/binary.ts, BinaryReader.  A read outside the buffer raises a        *)
(* RangeError (DataView, Uint8Array); seek and skip check nothing.         *)
(***************************************************************************)
RangeError == -1
\* getUint8(offset): the byte, or RangeError
readUInt8(buffer, offset) ==
    IF offset >= 0 /\ offset < Len(buffer) THEN buffer[offset + 1] ELSE RangeError
\* getUint32(offset, true) where the four bytes are inside the buffer
readUInt32LE(buffer, offset) ==
    buffer[offset + 1] + 256 * buffer[offset + 2] + 65536 * buffer[offset + 3]
    + 16777216 * buffer[offset + 4]

\* what a parser gives: a document, or the error it threw
Parsed(document) == [kind |-> "parsed", design |-> document]
ParseError(error) == [kind |-> "thrown", error |-> error]

\* calculateBounds of the writers (writers/dst.ts, writers/pes.ts), on a
\* document that has a stitch
calculateBounds(colorBlocks) ==
    [ minX |-> RSeqMin(Xs(Flatten(colorBlocks))),
      minY |-> RSeqMin(Ys(Flatten(colorBlocks))),
      maxX |-> RSeqMax(Xs(Flatten(colorBlocks))),
      maxY |-> RSeqMax(Ys(Flatten(colorBlocks))) ]

\* the document a parser builds from what it read
parsedDesign(newId, name, originalFormat, colorBlocks, threads, minX, minY, maxX, maxY) ==
    [ id |-> newId,
      name |-> name,
      originalFormat |-> originalFormat,
      colorBlocks |-> colorBlocks,
      threads |-> threads,
      machineProfile |-> BROTHER_PP1_PROFILE,
      metadata |-> [ originalWidthMm |-> Rat(maxX - minX, 10),
                     originalHeightMm |-> Rat(maxY - minY, 10),
                     scaleFactor |-> RInt(1),
                     originalStitchCount |-> TotalStitches(colorBlocks),
                     currentStitchCount |-> TotalStitches(colorBlocks),
                     fileName |-> NONE ] ]

\* the state of the stitch loop of a parser
ParseStart ==
    [ x |-> 0, y |-> 0, minX |-> 0, minY |-> 0, maxX |-> 0, maxY |-> 0,
      colorBlocks |-> <<>>,
      currentColorIndex |-> 0,
      currentBlock |-> [colorIndex |-> 0, stitches |-> <<>>],
      done |-> FALSE, threw |-> FALSE ]

\* x += dx; y += dy; and the bounds updated
movedBy(acc, dx, dy) ==
    [acc EXCEPT !.x = @ + dx, !.y = @ + dy,
                !.minX = IF acc.x + dx < @ THEN acc.x + dx ELSE @,
                !.minY = IF acc.y + dy < @ THEN acc.y + dy ELSE @,
                !.maxX = IF acc.x + dx > @ THEN acc.x + dx ELSE @,
                !.maxY = IF acc.y + dy > @ THEN acc.y + dy ELSE @]

\* currentBlock.stitches.push({ position: { x, y }, type, colorIndex })
pushStitch(acc, type, colorIndex) ==
    [acc EXCEPT !.currentBlock.stitches =
        Append(@, [position |-> Pt(RInt(acc.x), RInt(acc.y)), type |-> type,
                   colorIndex |-> colorIndex])]

\* a color change that leaves the current block open: the marker only
colorChangeInPlace(acc, colorIndex) ==
    [acc EXCEPT !.currentColorIndex = @ + 1,
                !.currentBlock.stitches =
                    Append(@, [position |-> Pt(RInt(acc.x), RInt(acc.y)),
                               type |-> "stop", colorIndex |-> colorIndex])]

\* a color change: the current block is pushed if it has a stitch, and a new
\* block is opened by a stop marker at the current position
colorChange(acc, colorIndex) ==
    [acc EXCEPT !.colorBlocks =
                    IF Len(acc.currentBlock.stitches) > 0
                    THEN Append(@, acc.currentBlock) ELSE @,
                !.currentColorIndex = @ + 1,
                !.currentBlock =
                    [ colorIndex |-> colorIndex,
                      stitches |-> << [position |-> Pt(RInt(acc.x), RInt(acc.y)),
                                       type |-> "stop", colorIndex |-> colorIndex] >> ]]

\* the color blocks after the loop: "Add final block"
finalBlocks(acc) ==
    IF Len(acc.currentBlock.stitches) > 0
    THEN Append(acc.colorBlocks, acc.currentBlock) ELSE acc.colorBlocks

(***************************************************************************)
(* lib/writers/dst.ts                                                      *)
(***************************************************************************)
encodeDSTDelta(value) == value % 4

getStitchFlags(stitchType) ==
    CASE stitchType = "jump" -> 131
      [] stitchType = "trim" -> 195
      [] stitchType = "stop" -> 243
      [] OTHER -> 3

\* the bits writeDSTRecord sets in byte3 and in byte2 for a movement along x
\* and for one along y
XBits3(dx) ==
    IF dx > 0 THEN 4 + (IF dx > 40 THEN 8 ELSE 0)
    ELSE IF dx < 0 THEN 8 + (IF dx < -40 THEN 4 ELSE 0)
    ELSE 0
XBits2(dx) == IF dx > 80 THEN 4 ELSE IF dx < -80 THEN 8 ELSE 0
YBits3(dy) ==
    IF dy > 0 THEN 32 + (IF dy > 40 THEN 16 ELSE 0)
    ELSE IF dy < 0 THEN 16 + (IF dy < -40 THEN 32 ELSE 0)
    ELSE 0
YBits2(dy) == IF dy > 80 THEN 32 ELSE IF dy < -80 THEN 16 ELSE 0

writeDSTRecord(dx, dy, flags) ==
    << encodeDSTDelta(Abs(dx) % 3),
       BitOr(XBits2(dx) + YBits2(dy), encodeDSTDelta(Abs(dy) % 3)),
       BitOr(flags, XBits3(dx) + YBits3(dy)) >>

\* Math.min(limit, remaining) alone
ClampAbove(remaining, limit) == IF remaining > limit THEN limit ELSE remaining

\* Math.max(-limit, Math.min(limit, remaining))
Clamp(remaining, limit) ==
    IF remaining > limit THEN limit ELSE IF remaining < -limit THEN -limit ELSE remaining

RECURSIVE writeDSTJump(_, _)
writeDSTJump(remainingX, remainingY) ==
    IF Abs(remainingX) > 121 \/ Abs(remainingY) > 121
    THEN writeDSTRecord(Clamp(remainingX, 121), Clamp(remainingY, 121), 131)
         \o writeDSTJump(remainingX - Clamp(remainingX, 121),
                         remainingY - Clamp(remainingY, 121))
    ELSE IF remainingX # 0 \/ remainingY # 0
    THEN writeDSTRecord(remainingX, remainingY, 131)
    ELSE <<>>

\* the body of the stitch loop of writeDSTStitches, for the movement (dx, dy)
writeDSTMove(dx, dy, stitchType) ==
    IF Abs(dx) > 121 \/ Abs(dy) > 121 THEN writeDSTJump(dx, dy)
    ELSE writeDSTRecord(dx, dy, getStitchFlags(stitchType))

\* the state of a writer's stitch loops: the bytes written, lastX and lastY
WriteStart == [bytes |-> <<>>, lastX |-> 0, lastY |-> 0]

writeDSTStitch(acc, stitch, x, y) ==
    [ bytes |-> acc.bytes \o writeDSTMove(x - acc.lastX, y - acc.lastY, stitch.type),
      lastX |-> x, lastY |-> y ]

writeDSTBlock(acc, stitches) ==
    FoldOver(LAMBDA written, i :
                 writeDSTStitch(written, stitches[i], RRound(stitches[i].position.x),
                                RRound(stitches[i].position.y)),
             acc, 1, Len(stitches))

\* the color change record written before each block but the first
dstColorChange(acc, blockIndex) ==
    IF blockIndex > 1 THEN [acc EXCEPT !.bytes = @ \o <<0, 0, 195>>] ELSE acc

writeDSTStitches(colorBlocks) ==
    LET upTo[b \in 0..Len(colorBlocks)] ==
            IF b = 0 THEN WriteStart
            ELSE writeDSTBlock(dstColorChange(upTo[b - 1], b), colorBlocks[b].stitches)
    IN  upTo[Len(colorBlocks)].bytes

\* an extent field of the header: the tag and Math.max(0, Math.round(extent / 10))
dstExtent(tag, extent) ==
    tag \o padStart(toString(IF RRound(RDiv(extent, RInt(10))) > 0
                             THEN RRound(RDiv(extent, RInt(10))) ELSE 0), 5, 32)

writeDSTHeaderWith(doc, bounds) ==
    PaddedTo(
        PaddedTo(<<76, 65, 58>>                                      \* "LA:"
                 \o writeFixedString(substring(doc.name, 16), 16, 32)
                 \o <<32, 32, 32>>, 97, 32)
        \o substring(<<83, 84, 58>>                                   \* "ST:"
                     \o padStart(toString(TotalStitches(doc.colorBlocks)), 7, 32), 9)
        \o substring(<<67, 79, 58>>                                   \* "CO:"
                     \o padStart(toString(IF Len(doc.colorBlocks) > 1
                                          THEN Len(doc.colorBlocks) - 1 ELSE 0), 4, 32),
                     7)
        \o dstExtent(<<43, 88>>, bounds.maxX)                         \* "+X"
        \o dstExtent(<<45, 88>>, RAbs(bounds.minX))                   \* "-X"
        \o dstExtent(<<43, 89>>, bounds.maxY)                         \* "+Y"
        \o dstExtent(<<45, 89>>, RAbs(bounds.minY)),                  \* "-Y"
        512, 32)

writeDSTHeader(doc) == writeDSTHeaderWith(doc, calculateBounds(doc.colorBlocks))

writeDST(doc) ==
    writeDSTHeader(doc) \o writeDSTStitches(doc.colorBlocks) \o <<0, 0, 243>>

(***************************************************************************)
(* lib/parsers/dst.ts                                                      *)
(***************************************************************************)
DST_HEADER_SIZE == 512

DEFAULT_DST_COLORS ==
    << [color |-> "#000000", colorName |-> "Black"],
       [color |-> "#ff0000", colorName |-> "Red"],
       [color |-> "#0000ff", colorName |-> "Blue"],
       [color |-> "#00ff00", colorName |-> "Green"],
       [color |-> "#ffff00", colorName |-> "Yellow"],
       [color |-> "#ff00ff", colorName |-> "Magenta"],
       [color |-> "#00ffff", colorName |-> "Cyan"],
       [color |-> "#ffffff", colorName |-> "White"] >>

\* where /LA:\s*([^\r\n]+)/ and /ST:\s*(\d+)/, /CO:\s*(\d+)/ match: at an
\* index of the tag such that a character of the line, or a digit, follows the
\* white space after it; the first such index is taken, 0 if there is none
LabelMatches(text, i) ==
    /\ StartsAt(text, i, <<76, 65, 58>>)
    /\ \E p \in (i + 3)..Len(text) :
           p <= SkipSpaces(text, i + 3) /\ text[p] \notin {10, 13}
CountMatches(text, i, tag) ==
    /\ StartsAt(text, i, tag)
    /\ SkipSpaces(text, i + 3) <= Len(text)
    /\ IsDigit(text[SkipSpaces(text, i + 3)])
FirstLabel(text) ==
    IF \E i \in 1..Len(text) : LabelMatches(text, i)
    THEN CHOOSE i \in 1..Len(text) :
             LabelMatches(text, i) /\ \A j \in 1..(i - 1) : ~LabelMatches(text, j)
    ELSE 0
FirstCount(text, tag) ==
    IF \E i \in 1..Len(text) : CountMatches(text, i, tag)
    THEN CHOOSE i \in 1..Len(text) :
             CountMatches(text, i, tag) /\ \A j \in 1..(i - 1) : ~CountMatches(text, j, tag)
    ELSE 0

\* labelMatch[1].trim() for the match at i: the text from the first
\* character after the white space to the end of the line, trimmed (empty
\* when only white space follows the tag)
labelFrom(text, from) ==
    IF from > Len(text) THEN <<>>
    ELSE SubSeq(text, from, TrimEnd(text, from, LineEnd(text, from) - 1))
\* parseInt(match[1], 10) for the match at i
countFrom(text, from) == parseInt(text, from, SkipDigits(text, from) - 1)

headerLabel(text, i) ==
    IF i = 0 THEN <<85, 110, 116, 105, 116, 108, 101, 100>>            \* "Untitled"
    ELSE labelFrom(text, SkipSpaces(text, i + 3))
headerCount(text, i, default) ==
    IF i = 0 THEN default ELSE countFrom(text, SkipSpaces(text, i + 3))

parseDSTHeader(headerText) ==
    [ label |-> headerLabel(headerText, FirstLabel(headerText)),
      stitchCount |-> headerCount(headerText, FirstCount(headerText, <<83, 84, 58>>), 0),
      colorCount |-> headerCount(headerText, FirstCount(headerText, <<67, 79, 58>>), 0) + 1 ]

\* if (mask & byte) amount, else 0
Weight(byte, mask, amount) == IF Bit(byte, mask) THEN amount ELSE 0
NegatedIf(negate, value) == IF negate THEN -value ELSE value

\* "Decode X movement" and "Decode Y movement"
decodeDSTX(byte1, byte2) ==
    NegatedIf(Bit(byte2, 128),
              NegatedIf(Bit(byte1, 128),
                        Weight(byte1, 1, 1) + Weight(byte1, 2, 9) + Weight(byte1, 4, 3))
              + Weight(byte2, 1, 81) + Weight(byte2, 2, 27) + Weight(byte2, 4, 243))
decodeDSTY(byte1, byte2) ==
    NegatedIf(Bit(byte2, 64),
              NegatedIf(Bit(byte1, 64),
                        Weight(byte1, 8, 1) + Weight(byte1, 16, 9) + Weight(byte1, 32, 3))
              + Weight(byte2, 8, 81) + Weight(byte2, 16, 27) + Weight(byte2, 32, 243))

\* the loop body after "Update bounds", acc being at the new position
dstPlaced(acc, byte3, dx, dy) ==
    IF Bit(byte3, 128) /\ Bit(byte3, 64)                  \* isColorChange
    THEN colorChange(acc, acc.currentColorIndex + 1)
    ELSE IF Bit(byte3, 128) /\ byte3 = 243                \* isEnd
    THEN [pushStitch(acc, "end", acc.currentColorIndex) EXCEPT !.done = TRUE]
    ELSE IF dx # 0 \/ dy # 0
    THEN pushStitch(acc, IF Abs(dx) > 100 \/ Abs(dy) > 100 THEN "jump" ELSE "run",
                    acc.currentColorIndex)
    ELSE acc

\* one turn of the loop of parseDSTStitches on the three bytes it reads
dstRecord(acc, byte1, byte2, byte3) ==
    IF acc.done THEN acc
    ELSE IF byte1 = RangeError \/ byte2 = RangeError \/ byte3 = RangeError
    THEN [acc EXCEPT !.done = TRUE, !.threw = TRUE]
    ELSE IF byte1 = 0 /\ byte2 = 0 /\ byte3 = 243
    THEN [acc EXCEPT !.done = TRUE]
    ELSE dstPlaced(movedBy(acc, decodeDSTX(byte1, byte2), decodeDSTY(byte1, byte2)),
                   byte3, decodeDSTX(byte1, byte2), decodeDSTY(byte1, byte2))

\* the turns lo .. hi of the loop (turn k reads at offset 512 + 3 k), by halves
RECURSIVE dstRecords(_, _, _, _)
dstRecords(buffer, lo, hi, acc) ==
    IF lo > hi THEN acc
    ELSE IF lo = hi
    THEN dstRecord(acc, readUInt8(buffer, DST_HEADER_SIZE + 3 * lo),
                   readUInt8(buffer, DST_HEADER_SIZE + 3 * lo + 1),
                   readUInt8(buffer, DST_HEADER_SIZE + 3 * lo + 2))
    ELSE CHOOSE after \in
             { dstRecords(buffer, (lo + hi) \div 2 + 1, hi, half) :
                 half \in { dstRecords(buffer, lo, (lo + hi) \div 2, acc) } } : TRUE

\* the loop runs while (!reader.eof): one turn for every three bytes begun
parseDSTStitches(buffer) ==
    dstRecords(buffer, 0, (Len(buffer) - DST_HEADER_SIZE + 2) \div 3 - 1, ParseStart)

dstThreads(colorCount) ==
    [i \in 1..colorCount |->
        [ color |-> DEFAULT_DST_COLORS[((i - 1) % Len(DEFAULT_DST_COLORS)) + 1].color,
          colorName |-> DEFAULT_DST_COLORS[((i - 1) % Len(DEFAULT_DST_COLORS)) + 1].colorName,
          brand |-> "Generic" ]]

\* name: fileName || header.label || "Untitled Design", no fileName given
dstName(label) ==
    IF label # <<>> THEN label
    ELSE <<85, 110, 116, 105, 116, 108, 101, 100, 32, 68, 101, 115, 105, 103, 110>>

parseDSTFrom(header, acc, colorBlocks, newId) ==
    IF acc.threw THEN ParseError("RangeError")
    ELSE Parsed(parsedDesign(newId, dstName(header.label), "DST", colorBlocks,
                             dstThreads(Len(colorBlocks)),
                             acc.minX, acc.minY, acc.maxX, acc.maxY))

parseDSTBody(buffer, acc, newId) ==
    parseDSTFrom(parseDSTHeader(SubSeq(buffer, 1, DST_HEADER_SIZE)), acc,
                 finalBlocks(acc), newId)

\* parseDST(buffer); newId is the crypto.randomUUID() of the document
parseDST(buffer, newId) ==
    IF Len(buffer) < DST_HEADER_SIZE THEN ParseError("RangeError")
    ELSE parseDSTBody(buffer, parseDSTStitches(buffer), newId)

\* getDSTMetadata(buffer): the header fields of the first 512 bytes
getDSTMetadata(buffer) ==
    IF Len(buffer) < DST_HEADER_SIZE THEN ParseError("RangeError")
    ELSE parseDSTHeader(SubSeq(buffer, 1, DST_HEADER_SIZE))

(***************************************************************************)
(* lib/writers/pes.ts                                                      *)
(***************************************************************************)
standardColors ==
    << "#000000", "#0000ff", "#00ff00", "#ff0000", "#ffff00", "#ff00ff", "#00ffff",
       "#ffffff", "#804000", "#ffa500", "#ffc0cb", "#800080", "#c0c0c0" >>

\* the colors of the model are written in lower case
getPECColorIndex(hexColor) ==
    IF \E i \in 1..Len(standardColors) : standardColors[i] = hexColor
    THEN (CHOOSE i \in 1..Len(standardColors) : standardColors[i] = hexColor) - 1
    ELSE 0

\* "#PES", "0001" and the offset 8
writePESHeader == <<35, 80, 69, 83>> \o <<48, 48, 48, 49>> \o writeUInt32LE(8)

\* the one-byte form of a movement along one axis
pecShort(delta) ==
    IF delta >= 0 THEN delta % 128 ELSE BitOr(Abs(delta) % 128, 128)
\* the first byte of the two-byte form of a movement along one axis
pecLongHigh(delta, isJump) ==
    BitOr(BitOr((Abs(delta) \div 256) % 16, IF delta < 0 THEN 16 ELSE 0),
          IF isJump THEN 128 ELSE 0)

writePECStitch(dx, dy, isJump) ==
    IF Abs(dx) <= 63 /\ Abs(dy) <= 63
    THEN writeUInt8(pecShort(dx)) \o writeUInt8(pecShort(dy))
    ELSE writeUInt8(pecLongHigh(dx, isJump)) \o writeUInt8(Abs(dx) % 256)
         \o writeUInt8(pecLongHigh(dy, FALSE)) \o writeUInt8(Abs(dy) % 256)

RECURSIVE writePECJump(_, _)
writePECJump(remainingX, remainingY) ==
    IF Abs(remainingX) > 2047 \/ Abs(remainingY) > 2047
    THEN writePECStitch(Clamp(remainingX, 2047), Clamp(remainingY, 2047), TRUE)
         \o writePECJump(remainingX - Clamp(remainingX, 2047),
                         remainingY - Clamp(remainingY, 2047))
    ELSE IF remainingX # 0 \/ remainingY # 0
    THEN writePECStitch(remainingX, remainingY, TRUE)
    ELSE <<>>

writePECMove(dx, dy, stitchType) ==
    IF Abs(dx) > 2047 \/ Abs(dy) > 2047 THEN writePECJump(dx, dy)
    ELSE writePECStitch(dx, dy, stitchType = "jump")

writePECStitchAt(acc, stitch, x, y) ==
    [ bytes |-> acc.bytes \o writePECMove(x - acc.lastX, y - acc.lastY, stitch.type),
      lastX |-> x, lastY |-> y ]

writePECBlock(acc, stitches, centerX, centerY) ==
    FoldOver(LAMBDA written, i :
                 writePECStitchAt(written, stitches[i],
                                  RRound(RSub(stitches[i].position.x, centerX)),
                                  RRound(RSub(stitches[i].position.y, centerY))),
             acc, 1, Len(stitches))

pecColorChange(acc, blockIndex) ==
    IF blockIndex > 1 THEN [acc EXCEPT !.bytes = @ \o <<254, 176>>] ELSE acc

writePECBlocks(colorBlocks, centerX, centerY) ==
    LET upTo[b \in 0..Len(colorBlocks)] ==
            IF b = 0 THEN WriteStart
            ELSE writePECBlock(pecColorChange(upTo[b - 1], b), colorBlocks[b].stitches,
                               centerX, centerY)
    IN  upTo[Len(colorBlocks)].bytes

\* centerX and centerY of writePECStitches
centerOf(bounds) ==
    [ x |-> RDiv(RAdd(bounds.minX, bounds.maxX), RInt(2)),
      y |-> RDiv(RAdd(bounds.minY, bounds.maxY), RInt(2)) ]

writePECStitchesAround(colorBlocks, center) ==
    writePECBlocks(colorBlocks, center.x, center.y) \o writeUInt8(255)

writePECStitches(colorBlocks) ==
    writePECStitchesAround(colorBlocks, centerOf(calculateBounds(colorBlocks)))

\* the color count and the palette: one byte per thread
pecPalette(threads) ==
    writeUInt8(IF Len(threads) < 255 THEN Len(threads) ELSE 255)
    \o [i \in 1..Len(threads) |-> getPECColorIndex(threads[i].color)]

writePECSection(doc) ==
    PaddedTo(<<76, 65, 58>>                                           \* "LA:"
             \o writeFixedString(substring(doc.name, 16), 16, 32)
             \o writePadding(12, 32)
             \o writePadding(228, 0)
             \o writePadding(12, 0)
             \o pecPalette(doc.threads), 463, 32)
    \o writePECStitches(doc.colorBlocks)

writePES(doc) == writePESHeader \o writePECSection(doc)

(***************************************************************************)
(* lib/parsers/pes.ts                                                      *)
(***************************************************************************)
PES_MAGIC == <<35, 80, 69, 83>>                                       \* "#PES"

BROTHER_THREAD_COLORS ==
    << [color |-> "#0f0f0f", colorName |-> "Black"],
       [color |-> "#1a55a2", colorName |-> "Prussian Blue"],
       [color |-> "#0f75ff", colorName |-> "Blue"],
       [color |-> "#007b88", colorName |-> "Teal Green"],
       [color |-> "#f39178", colorName |-> "Corn Flower Blue"],
       [color |-> "#ff0000", colorName |-> "Red"],
       [color |-> "#ee82ee", colorName |-> "Reddish Lilac"],
       [color |-> "#ffc0cb", colorName |-> "Lilac"],
       [color |-> "#ffcccc", colorName |-> "Pale Pink"],
       [color |-> "#ffa500", colorName |-> "Gold"],
       [color |-> "#00bfff", colorName |-> "Light Sky Blue"],
       [color |-> "#90ee90", colorName |-> "Pale Green"],
       [color |-> "#00ff00", colorName |-> "Green"],
       [color |-> "#40e0d0", colorName |-> "Turquoise"],
       [color |-> "#ffd700", colorName |-> "Yellow"],
       [color |-> "#ffa07a", colorName |-> "Light Salmon"] >>

\* "Decode X movement" / "Decode Y movement" with "Check for larger movements"
decodePEC(byte) ==
    (IF Bit(byte, 64) THEN 16 ELSE 1)
    * (IF Bit(byte, 128) THEN -(byte % 16) ELSE byte % 16)

\* one turn of the loop of parseStitchData on the two bytes it reads
pecRecord(acc, byte1, byte2, colorCount) ==
    IF acc.done THEN acc
    ELSE IF byte1 = RangeError \/ byte2 = RangeError
    THEN [acc EXCEPT !.done = TRUE, !.threw = TRUE]
    ELSE IF byte1 = 255 /\ byte2 = 0
    THEN [acc EXCEPT !.done = TRUE]
    ELSE IF byte1 = 254 /\ byte2 = 176
    THEN colorChange(acc, (acc.currentColorIndex + 1) % colorCount)
    ELSE pushStitch(movedBy(acc, decodePEC(byte1), decodePEC(byte2)),
                    IF Bit(byte1, 32) \/ Bit(byte2, 32) THEN "jump" ELSE "run",
                    acc.currentColorIndex % colorCount)

\* the turns lo .. hi of the loop (turn k reads at offset start + 2 k), by halves
RECURSIVE pecRecords(_, _, _, _, _, _)
pecRecords(buffer, start, colorCount, lo, hi, acc) ==
    IF lo > hi THEN acc
    ELSE IF lo = hi
    THEN pecRecord(acc, readUInt8(buffer, start + 2 * lo),
                   readUInt8(buffer, start + 2 * lo + 1), colorCount)
    ELSE CHOOSE after \in
             { pecRecords(buffer, start, colorCount, (lo + hi) \div 2 + 1, hi, half) :
                 half \in { pecRecords(buffer, start, colorCount, lo,
                                       (lo + hi) \div 2, acc) } } : TRUE

\* parseStitchData with the reader at offset start: one turn for every two
\* bytes begun
parseStitchData(buffer, start, colorCount) ==
    pecRecords(buffer, start, colorCount, 0, (Len(buffer) - start + 1) \div 2 - 1,
               ParseStart)

\* the threads of the color indices read at offset .. offset + colorCount - 1
pecThreads(buffer, offset, colorCount) ==
    [i \in 1..colorCount |->
        [ color |-> BROTHER_THREAD_COLORS[
                        (buffer[offset + i] % Len(BROTHER_THREAD_COLORS)) + 1].color,
          colorName |-> BROTHER_THREAD_COLORS[
                        (buffer[offset + i] % Len(BROTHER_THREAD_COLORS)) + 1].colorName,
          brand |-> "Brother" ]]

\* name: fileName || "Untitled Design", no fileName given
parsePESFrom(acc, threads, newId) ==
    IF acc.threw THEN ParseError("RangeError")
    ELSE Parsed(parsedDesign(newId,
                             <<85, 110, 116, 105, 116, 108, 101, 100, 32,
                               68, 101, 115, 105, 103, 110>>,
                             "PES", finalBlocks(acc), threads,
                             acc.minX, acc.minY, acc.maxX, acc.maxY))

\* parsePECSection from the color indices on: colorCount indices at
\* offset .., then the stitch data
parsePECColors(buffer, offset, colorCount, newId) ==
    IF offset + colorCount > Len(buffer) THEN ParseError("RangeError")
    ELSE parsePESFrom(parseStitchData(buffer, offset + colorCount, colorCount),
                      pecThreads(buffer, offset, colorCount), newId)

\* parsePECSection with the reader at pecOffset: skip 3, the label of 16
\* bytes, skip 12 + 1 + 12, the color count
parsePECSection(buffer, pecOffset, newId) ==
    IF pecOffset + 19 > Len(buffer) THEN ParseError("RangeError")
    ELSE IF readUInt8(buffer, pecOffset + 44) = RangeError THEN ParseError("RangeError")
    ELSE parsePECColors(buffer, pecOffset + 45, readUInt8(buffer, pecOffset + 44) + 1,
                        newId)

\* parsePES(buffer); newId is the crypto.randomUUID() of the document
parsePES(buffer, newId) ==
    IF Len(buffer) < 4 THEN ParseError("RangeError")
    ELSE IF SubSeq(buffer, 1, 4) # PES_MAGIC THEN ParseError("Invalid PES file")
    ELSE IF Len(buffer) < 12 THEN ParseError("RangeError")
    ELSE parsePECSection(buffer, readUInt32LE(buffer, 8), newId)

\* isPESFile(buffer)
isPESFile(buffer) == Len(buffer) >= 4 /\ SubSeq(buffer, 1, 4) = PES_MAGIC

\* headerText.includes(pattern) on the first 512 bytes
headerIncludes(buffer, pattern) ==
    \E i \in 1..DST_HEADER_SIZE :
        /\ i + Len(pattern) - 1 <= DST_HEADER_SIZE
        /\ StartsAt(buffer, i, pattern)

\* isDSTFile(buffer): "LA:" or "ST:" in the header
isDSTFile(buffer) ==
    /\ Len(buffer) >= DST_HEADER_SIZE
    /\ headerIncludes(buffer, <<76, 65, 58>>) \/ headerIncludes(buffer, <<83, 84, 58>>)

(***************************************************************************)
(* lib/parsers/index.ts                                                    *)
(***************************************************************************)
toLowerCase(text) ==
    [i \in 1..Len(text) |-> IF text[i] \in 65..90 THEN text[i] + 32 ELSE text[i]]

\* the part of text after the dot at index dot (after nothing when dot = 0)
partAfter(text, dot) == SubSeq(text, dot + 1, Len(text))

\* text.split('.').pop(): what follows the last dot, all of text without one
lastPart(text) ==
    partAfter(text, CHOOSE dot \in 0..Len(text) :
                        /\ dot = 0 \/ text[dot] = 46
                        /\ \A later \in (dot + 1)..Len(text) : text[later] # 46)

\* the parsers called with a file name: name and metadata.fileName are the
\* file name when it is not empty
withFileName(outcome, fileName) ==
    IF outcome.kind = "parsed" /\ fileName # <<>>
    THEN [outcome EXCEPT !.design.name = fileName,
                         !.design.metadata.fileName = fileName]
    ELSE outcome

\* parseEmbroideryFile from "Try to detect format from file content" on
parseByContent(buffer, fileName, newId) ==
    IF isPESFile(buffer) THEN withFileName(parsePES(buffer, newId), fileName)
    ELSE IF isDSTFile(buffer) THEN withFileName(parseDST(buffer, newId), fileName)
    ELSE ParseError("Unsupported embroidery file format. Supported formats: PES, DST")

\* the dispatch that sniffs the content before it looks at the name
parseByContentOnly(buffer, fileName, ext, newId) ==
    parseByContent(buffer, fileName, newId)

\* the switch on ext of parseEmbroideryFile
parseByExtension(buffer, fileName, ext, newId) ==
    IF fileName # <<>> /\ ext = <<112, 101, 115>>                        \* 'pes'
    THEN withFileName(parsePES(buffer, newId), fileName)
    ELSE IF fileName # <<>> /\ ext = <<100, 115, 116>>                   \* 'dst'
    THEN withFileName(parseDST(buffer, newId), fileName)
    ELSE parseByContent(buffer, fileName, newId)

\* parseEmbroideryFile(buffer, fileName), fileName <<>> when it is not given
parseEmbroideryFile(buffer, fileName, newId) ==
    parseByExtension(buffer, fileName, lastPart(toLowerCase(fileName)), newId)

detectFormat(buffer) ==
    IF isPESFile(buffer) THEN "PES" ELSE IF isDSTFile(buffer) THEN "DST" ELSE "null"

(***************************************************************************)
(* The documents the codecs are run on: one block of 1 .. MaxLen run or     *)
(* jump stitches along a path, alone or followed by a second block of two  *)
(* run stitches further along the path; all positions are integers, no     *)
(* block is empty, and there is one thread for each block.                 *)
(***************************************************************************)
\* a path of steps of one unit along x, and a path of longer steps in every
\* direction
CodecPaths ==
    { << <<1, 0>>, <<2, 0>>, <<3, 0>>, <<4, 0>>, <<5, 0>>, <<6, 0>>, <<7, 0>>, <<8, 0>> >>,
      << <<10, 0>>, <<20, 5>>, <<20, -40>>, <<150, -40>>, <<150, 30>>, <<149, 30>>,
         <<100, 100>>, <<0, 0>> >> }

\* the stitches of the given types at the points from .. from + Len(types) - 1
StitchesAlong(path, from, types, colorIndex) ==
    [i \in 1..Len(types) |->
        St(path[from + i - 1][1], path[from + i - 1][2], types[i], colorIndex)]

FirstBlock(path, types) ==
    [colorIndex |-> 0, stitches |-> StitchesAlong(path, 1, types, 0)]
SecondBlock(path, from) ==
    [colorIndex |-> 1, stitches |-> StitchesAlong(path, from, <<"run", "run">>, 1)]

CodecBlocks ==
    UNION { UNION { { <<FirstBlock(path, types)>>,
                      <<FirstBlock(path, types), SecondBlock(path, n + 1)>> } :
                    types \in [1..n -> PathTypes] } :
            path \in CodecPaths, n \in 1..MaxLen }

\* the document of the given blocks, its size that of its bounding box
CodecDesign(colorBlocks, box) ==
    [ MakeDesign(colorBlocks, RDiv(box.width, RInt(10)), RDiv(box.height, RInt(10)))
        EXCEPT !.threads = SubSeq(@, 1, Len(colorBlocks)) ]

CodecDesigns ==
    { CodecDesign(blocks, calculateBoundingBox(Flatten(blocks))) : blocks \in CodecBlocks }

CodecInit ==
    /\ OnlyCodec
    /\ cdoc \in CodecDesigns
    /\ cfmt = "none"
    /\ cfile = <<>>
    /\ cout = <<>>

\* writeDST(design) and writePES(design)
ExportDST ==
    /\ cfmt = "none"
    /\ cfmt' = "DST"
    /\ cfile' = writeDST(cdoc)
    /\ UNCHANGED <<cdoc, cout, notCodec>>

ExportPES ==
    /\ cfmt = "none"
    /\ cfmt' = "PES"
    /\ cfile' = writePES(cdoc)
    /\ UNCHANGED <<cdoc, cout, notCodec>>

\* parseDST(buffer) and parsePES(buffer) on the file written
ImportDST ==
    /\ cfmt = "DST"
    /\ cout = <<>>
    /\ cout' = << parseDST(cfile, cdoc.id + 1) >>
    /\ UNCHANGED <<cdoc, cfmt, cfile, notCodec>>

ImportPES ==
    /\ cfmt = "PES"
    /\ cout = <<>>
    /\ cout' = << parsePES(cfile, cdoc.id + 1) >>
    /\ UNCHANGED <<cdoc, cfmt, cfile, notCodec>>

\* writeDST(design) on the document parseDST returned, when it has a stitch;
\* a document is written again once
ReExportDST ==
    /\ cfmt = "DST"
    /\ cout # <<>>
    /\ cdoc.originalFormat = "DEMO"
    /\ cout[1].kind = "parsed"
    /\ TotalStitches(cout[1].design.colorBlocks) > 0
    /\ cdoc' = cout[1].design
    /\ cfile' = writeDST(cout[1].design)
    /\ cout' = <<>>
    /\ UNCHANGED <<cfmt, notCodec>>

CodecNext == ExportDST \/ ExportPES \/ ImportDST \/ ImportPES \/ ReExportDST

CodecSpec == CodecInit /\ [][CodecNext]_vars

(***************************************************************************)
(* calculateScaleFactor on its own: one call on arguments drawn from the   *)
(* sizes 1 .. MaxSize mm, each target given or not, a scale percentage     *)
(* given or not, preserveAspectRatio true, false or left to its default.   *)
(***************************************************************************)
SizeChoices == { RInt(n) : n \in 1..MaxSize }
PercentChoices == { RInt(50), RInt(150) }
SizingArguments ==
    [ originalWidth : SizeChoices,
      originalHeight : SizeChoices,
      params : [ targetWidth : SizeChoices \cup {NONE},
                 targetHeight : SizeChoices \cup {NONE},
                 scalePercent : PercentChoices \cup {NONE},
                 preserveAspectRatio : {NONE, Some(TRUE), Some(FALSE)} ] ]

SizingInit ==
    /\ OnlySizing
    /\ sizing \in SizingArguments
    /\ sized = <<>>

ComputeScaleFactor ==
    /\ sized = <<>>
    /\ sized' = << calculateScaleFactor(sizing.originalWidth, sizing.originalHeight,
                                        sizing.params) >>
    /\ UNCHANGED <<sizing, notSizing>>

SizingNext == ComputeScaleFactor

SizingSpec == SizingInit /\ [][SizingNext]_vars

(***************************************************************************)
(* The validation engine called directly: one call of one of its           *)
(* functions, on arguments at and around every threshold.                  *)
(***************************************************************************)
\* how many steps off a threshold the arguments go, on either side
MaxDelta == 1

Deltas == {-d : d \in 0..MaxDelta} \cup (0..MaxDelta)

\* percentages of change, in thousandths of a percent around 20, 30 and 50
ResizePercents ==
    { Rat(sign * (limit * 1000 + d), 1000) :
        sign \in {-1, 1}, limit \in {0, 20, 30, 50, 75}, d \in Deltas }

ResizeCalls ==
    { [ op |-> "validateResizePercentage",
        originalSize |-> original,
        newSize |-> RMul(original, RAdd(RInt(1), RDiv(percent, RInt(100)))) ] :
        original \in {RInt(100), RInt(40)}, percent \in ResizePercents }
    \cup { [ op |-> "validateResizePercentage",
             originalSize |-> RInt(0), newSize |-> RInt(size) ] : size \in {0, 5} }

\* densities in millionths of a millimetre around 0.2, 0.4, 0.45 and 1.0
Densities ==
    { Rat(limit + d, 1000000) :
        limit \in {200000, 400000, 450000, 1000000, 3000000}, d \in Deltas }
    \cup {RInt(0)}

DensityCalls == { [op |-> "validateStitchDensity", densityMm |-> d] : d \in Densities }

\* sizes in tenths of a millimetre around the 5 mm margin and the hoop limit
HoopSizes ==
    { Rat(limit + d, 10) : limit \in {500, 950, 1000}, d \in Deltas }

DimensionCalls ==
    { [ op |-> "validateDimensions", width |-> w, height |-> h,
        machineProfile |-> BROTHER_PP1_PROFILE ] : w \in HoopSizes, h \in HoopSizes }

AllCalls ==
    { [ op |-> "validateAll", params |-> params ] :
        params \in [ originalWidth : {RInt(50)},
                     originalHeight : {RInt(80)},
                     newWidth : {RInt(50), RInt(80)},
                     newHeight : {RInt(80), RInt(101)},
                     newDensityMm : {NONE, Rat(1, 10), Rat(4, 10)},
                     minStitchLength : {NONE, Rat(1, 10), RInt(1)},
                     maxStitchLength : {NONE, RInt(2), RInt(4)},
                     machineProfile : {BROTHER_PP1_PROFILE} ] }

ValidatorInit ==
    /\ OnlyValidator
    /\ checking \in ResizeCalls \cup DensityCalls \cup DimensionCalls \cup AllCalls
    /\ checked = <<>>

ValidateResizePercentage ==
    /\ checked = <<>>
    /\ checking.op = "validateResizePercentage"
    /\ checked' = <<validateResizePercentage(checking.originalSize, checking.newSize)>>
    /\ UNCHANGED <<checking, notValidator>>

ValidateStitchDensity ==
    /\ checked = <<>>
    /\ checking.op = "validateStitchDensity"
    /\ checked' = <<validateStitchDensity(checking.densityMm)>>
    /\ UNCHANGED <<checking, notValidator>>

ValidateDimensions ==
    /\ checked = <<>>
    /\ checking.op = "validateDimensions"
    /\ checked' = <<validateDimensions(checking.width, checking.height,
                                       checking.machineProfile)>>
    /\ UNCHANGED <<checking, notValidator>>

ValidateAll ==
    /\ checked = <<>>
    /\ checking.op = "validateAll"
    /\ checked' = <<validateAll(checking.params)>>
    /\ UNCHANGED <<checking, notValidator>>

ValidatorNext ==
    \/ ValidateResizePercentage
    \/ ValidateStitchDensity
    \/ ValidateDimensions
    \/ ValidateAll

ValidatorSpec == ValidatorInit /\ [][ValidatorNext]_vars

(***************************************************************************)
(* The parsers on files that no writer of this program made: a header and  *)
(* up to MaxRecords records, each any of a few kinds (a stitch, no         *)
(* movement, a long move, a color change, the end marker), complete or cut *)
(* off inside a record; and files that are neither DST nor PES.            *)
(***************************************************************************)
MaxRecords == 3

\* the records joined into one sequence of bytes
Joined(records) ==
    LET upTo[i \in 0..Len(records)] ==
            IF i = 0 THEN <<>> ELSE upTo[i - 1] \o records[i]
    IN  upTo[Len(records)]

StreamsOf(choices) ==
    UNION { { Joined(records) : records \in [1..n -> choices] } : n \in 0..MaxRecords }

\* +1 in x; no movement; 243 in x; a color change (the trim flag 0xc3); a
\* color change with a movement (0xf3); the end marker
DSTRecordChoices ==
    { <<1, 0, 3>>, <<0, 0, 3>>, <<0, 4, 3>>, <<0, 0, 195>>, <<1, 0, 243>>, <<0, 0, 243>> }

\* a header with a label, and one of blanks only
LabelledHeader == PaddedTo(<<76, 65, 58, 120>>, DST_HEADER_SIZE, 32)      \* "LA:x"
BlankHeader == writePadding(DST_HEADER_SIZE, 32)

DSTFiles ==
    { LabelledHeader \o stream : stream \in StreamsOf(DSTRecordChoices) }
    \cup { LabelledHeader \o <<1, 0, 3, 1>>, LabelledHeader \o <<0, 0, 195, 1, 0>>,
           BlankHeader \o <<1, 0, 3>>, BlankHeader }

\* (1, 2); no movement; a jump; a color change; the end marker
PECRecordChoices ==
    { <<1, 2>>, <<0, 0>>, <<33, 0>>, <<254, 176>>, <<255, 0>> }

\* "#PES0001", the PEC section at offset 12: 44 bytes up to the color
\* count, the color indices, the stitch data
PESFileOf(colorIndices, stream) ==
    PES_MAGIC \o <<48, 48, 48, 49>> \o writeUInt32LE(12)
    \o writePadding(44, 32) \o <<Len(colorIndices) - 1>> \o colorIndices \o stream

PESFiles ==
    { PESFileOf(<<5, 2>>, stream) : stream \in StreamsOf(PECRecordChoices) }
    \cup { PESFileOf(<<5>>, <<254, 176, 1, 2, 254, 176, 1, 2>>),
           PESFileOf(<<5, 2>>, <<1, 2, 1>>),
           PES_MAGIC, PES_MAGIC \o <<48, 48, 48, 49>> \o writeUInt32LE(12) }

\* neither "#PES" at the start nor "LA:" / "ST:" in the first 512 bytes
OtherFiles == { <<>>, <<1, 2, 3>>, writePadding(DST_HEADER_SIZE + 3, 0) }

ImportFiles == DSTFiles \cup PESFiles \cup OtherFiles

\* "a.pes", "A.PES", "pes"; "a.dst", "b.pes.Dst"; "a.txt", "pes.", "a"
PESNames == { <<97, 46, 112, 101, 115>>, <<65, 46, 80, 69, 83>>, <<112, 101, 115>> }
DSTNames == { <<97, 46, 100, 115, 116>>, <<98, 46, 112, 101, 115, 46, 68, 115, 116>> }
OtherNames == { <<97, 46, 116, 120, 116>>, <<112, 101, 115, 46>>, <<97>> }
FileNames == PESNames \cup DSTNames \cup OtherNames

ImportInit ==
    /\ OnlyImport
    /\ ibuf \in ImportFiles
    /\ iname = NONE
    /\ ivia = "none"
    /\ iout = <<>>

\* parseDST(buffer)
OpenDST ==
    /\ ivia = "none"
    /\ ivia' = "parseDST"
    /\ iout' = <<parseDST(ibuf, 1)>>
    /\ UNCHANGED <<ibuf, iname, notImport>>

\* parsePES(buffer)
OpenPES ==
    /\ ivia = "none"
    /\ ivia' = "parsePES"
    /\ iout' = <<parsePES(ibuf, 1)>>
    /\ UNCHANGED <<ibuf, iname, notImport>>

\* parseEmbroideryFile(buffer, fileName), and parseEmbroideryFile(buffer)
OpenFile ==
    /\ ivia = "none"
    /\ \E fileName \in FileNames \cup {NONE} :
           /\ iname' = fileName
           /\ iout' = <<parseEmbroideryFile(ibuf, fileName, 1)>>
    /\ ivia' = "parseEmbroideryFile"
    /\ UNCHANGED <<ibuf, notImport>>

ImportNext == OpenDST \/ OpenPES \/ OpenFile

ImportSpec == ImportInit /\ [][ImportNext]_vars

(***************************************************************************)
(* lib/binary.ts, BinaryReader, as an object: a DataView over the buffer   *)
(* and an offset.  seek, skip and the position setter assign the offset    *)
(* and check nothing; every typed read calls the DataView getter at the    *)
(* offset first and adds the width after, so a getter that throws leaves   *)
(* the offset as it was.  Offsets are whole numbers.  Numbers of the       *)
(* checker are 32-bit signed, so the buffers of four bytes or more hold    *)
(* bytes below 128 and an unsigned 32-bit value always fits.               *)
(***************************************************************************)
MaxBytes == 5       \* bytes in a reader's buffer
MaxLoads == 3       \* documents loaded into the app in one behaviour
MaxSplits == 2      \* whole steps in a movement handed to a long-move loop
MaxOver == 1        \* how far before the start or past the end an offset is put

Value(value) == [kind |-> "value", value |-> value]
Threw == [kind |-> "thrown", value |-> RangeError]
Assigned == [kind |-> "returned", value |-> 0]

\* the bytes a getter of that width reads, most significant first
bytesRead(buffer, byteOffset, width, littleEndian) ==
    [i \in 1..width |->
        IF littleEndian THEN buffer[byteOffset + width + 1 - i] ELSE buffer[byteOffset + i]]

RECURSIVE unsignedOf(_)
unsignedOf(bytes) ==
    IF bytes = <<>> THEN 0
    ELSE 256 * unsignedOf(SubSeq(bytes, 1, Len(bytes) - 1)) + bytes[Len(bytes)]

\* two's complement: the leading byte counts from -128 to 127
leadingByte(byte) == IF byte >= 128 THEN byte - 256 ELSE byte
RECURSIVE weightOf(_)
weightOf(width) == IF width = 1 THEN 1 ELSE 256 * weightOf(width - 1)
signedOf(bytes) ==
    leadingByte(bytes[1]) * weightOf(Len(bytes)) + unsignedOf(Tail(bytes))

numberOf(bytes, signed) == IF signed THEN signedOf(bytes) ELSE unsignedOf(bytes)

\* a getter that reads what is there and takes the bytes outside as zero
getZeroFilled(buffer, byteOffset, width, signed, littleEndian) ==
    Value(numberOf(bytesRead([i \in 1..(byteOffset + width) |->
                                 IF i <= Len(buffer) THEN buffer[i] ELSE 0],
                             IF byteOffset < 0 THEN 0 ELSE byteOffset,
                             width, littleEndian),
                   signed))

\* DataView.prototype.getUint8 ... getInt32: a RangeError when the offset is
\* negative or offset + width is past the end of the view
getViewValue(buffer, byteOffset, width, signed, littleEndian) ==
    IF byteOffset < 0 \/ byteOffset + width > Len(buffer) THEN Threw
    ELSE Value(numberOf(bytesRead(buffer, byteOffset, width, littleEndian), signed))

\* const value = this.view.getXxx(this.offset, littleEndian);
\* this.offset += width; return value;
offsetAfter(offset, width, outcome) ==
    IF outcome.kind = "value" THEN offset + width ELSE offset

SmallBuffers == UNION { [1..n -> {1, 128, 255}] : n \in 0..3 }
LongBuffers == UNION { [1..n -> {1, 127}] : n \in 4..MaxBytes }
ReaderBuffers == SmallBuffers \cup LongBuffers
Positions == (0 - MaxOver)..(Len(rbuf) + MaxOver)
Skips == {-2, -1, 1, 2}

\* new BinaryReader(buffer)
ReaderInit ==
    /\ rbuf \in ReaderBuffers
    /\ roff = 0
    /\ rlast = NoRead
    /\ OnlyReader

Read(op, width, signed, littleEndian) ==
    /\ \E outcome \in { getViewValue(rbuf, roff, width, signed, littleEndian) } :
           /\ rlast' = [op |-> op, at |-> roff, width |-> width, outcome |-> outcome]
           /\ roff' = offsetAfter(roff, width, outcome)
    /\ UNCHANGED <<rbuf, notReader>>

ReadUInt8 == Read("readUInt8", 1, FALSE, FALSE)
ReadInt8 == Read("readInt8", 1, TRUE, FALSE)
ReadUInt16LE == Read("readUInt16LE", 2, FALSE, TRUE)
ReadUInt16BE == Read("readUInt16BE", 2, FALSE, FALSE)
ReadInt16LE == Read("readInt16LE", 2, TRUE, TRUE)
ReadInt16BE == Read("readInt16BE", 2, TRUE, FALSE)
ReadUInt32LE == Read("readUInt32LE", 4, FALSE, TRUE)
ReadUInt32BE == Read("readUInt32BE", 4, FALSE, FALSE)
ReadInt32LE == Read("readInt32LE", 4, TRUE, TRUE)

\* seek(position) { this.offset = position; }
Seek ==
    \E position \in Positions :
        /\ roff' = position
        /\ rlast' = [op |-> "seek", at |-> roff, width |-> 0, outcome |-> Assigned]
        /\ UNCHANGED <<rbuf, notReader>>

\* set position(value) { this.offset = value; }
SetPosition ==
    \E value \in Positions :
        /\ roff' = value
        /\ rlast' = [op |-> "position", at |-> roff, width |-> 0, outcome |-> Assigned]
        /\ UNCHANGED <<rbuf, notReader>>

\* skip(n) { this.offset += n; }, while the offset stays within MaxOver of
\* the buffer
Skip ==
    \E n \in Skips :
        /\ roff + n \in Positions
        /\ roff' = roff + n
        /\ rlast' = [op |-> "skip", at |-> roff, width |-> 0, outcome |-> Assigned]
        /\ UNCHANGED <<rbuf, notReader>>

ReaderNext ==
    \/ ReadUInt8 \/ ReadInt8
    \/ ReadUInt16LE \/ ReadUInt16BE \/ ReadInt16LE \/ ReadInt16BE
    \/ ReadUInt32LE \/ ReadUInt32BE \/ ReadInt32LE
    \/ Seek \/ SetPosition \/ Skip

ReaderSpec == ReaderInit /\ [][ReaderNext]_vars

(***************************************************************************)
(* The loops of writeDSTJump and writePECJump, turn by turn: one call on a *)
(* movement (dx, dy), the steps handed to writeDSTRecord or writePECStitch *)
(* kept in the order they are written.                                     *)
(***************************************************************************)
\* the limit of a step along an axis
JumpLimit(format) == IF format = "DST" THEN 121 ELSE 2047
\* movements of up to MaxSplits whole steps and a rest, either way
JumpDeltas(limit) ==
    { sign * (whole * limit + rest) :
        sign \in {-1, 1}, whole \in 0..MaxSplits, rest \in {0, 1, limit - 1} }

\* let remainingX = dx; let remainingY = dy;
JumpInit ==
    /\ OnlyJump
    /\ jfmt \in {"DST", "PES"}
    /\ jdx \in JumpDeltas(JumpLimit(jfmt))
    /\ jdy \in JumpDeltas(JumpLimit(jfmt))
    /\ jremX = jdx
    /\ jremY = jdy
    /\ jsteps = <<>>
    /\ jpc = "loop"

\* while (Math.abs(remainingX) > limit || Math.abs(remainingY) > limit)
JumpLoops(limit) == Abs(jremX) > limit \/ Abs(jremY) > limit

\* one turn of the loop: the clamped step is written and taken off
JumpTurn(format, limit) ==
    /\ jfmt = format
    /\ jpc = "loop"
    /\ JumpLoops(limit)
    /\ jsteps' = Append(jsteps, <<Clamp(jremX, limit), Clamp(jremY, limit)>>)
    /\ jremX' = jremX - Clamp(jremX, limit)
    /\ jremY' = jremY - Clamp(jremY, limit)
    /\ UNCHANGED <<jfmt, jdx, jdy, jpc, notJump>>

\* after the loop: "Write final step if needed"
JumpEnd(format, limit) ==
    /\ jfmt = format
    /\ jpc = "loop"
    /\ ~JumpLoops(limit)
    /\ jsteps' = IF jremX # 0 \/ jremY # 0 THEN Append(jsteps, <<jremX, jremY>>)
                  ELSE jsteps
    /\ jpc' = "done"
    /\ UNCHANGED <<jfmt, jdx, jdy, jremX, jremY, notJump>>

DSTJumpTurn == JumpTurn("DST", 121)
DSTJumpEnd == JumpEnd("DST", 121)
PECJumpTurn == JumpTurn("PES", 2047)
PECJumpEnd == JumpEnd("PES", 2047)

JumpNext == DSTJumpTurn \/ DSTJumpEnd \/ PECJumpTurn \/ PECJumpEnd

JumpSpec == JumpInit /\ [][JumpNext]_vars

\* the loop is synchronous code of one call: a turn that can be taken is taken
FairJumpSpec == JumpSpec /\ WF_vars(JumpNext)

(***************************************************************************)
(* App.tsx: the state of App and the effect on [originalDesign, scale].    *)
(* An event is taken with the render it causes and the effect that render  *)
(* runs: the cleanup of the effect before it (clearTimeout) and then the   *)
(* effect.  The timeout's callback is an event of its own.  A document or  *)
(* null held in state is Some(document) or NONE.                           *)
(***************************************************************************)
\* scaleDesign(design, params, config): a new engine, then applyScaling
scaleDesign(d, params, cfg, newId, now) ==
    applyScaling(d, params,
                 [ targetDensityMm |-> cfg.targetDensityMm, safeMode |-> cfg.safeMode,
                   machineProfile |-> NONE ],
                 newId, now)

\* the colorBlocks of testDesign
TestPattern ==
    << [colorIndex |-> 0,
        stitches |-> << St(0, 0, "run", 0), St(100, 0, "run", 0), St(100, 100, "run", 0),
                        St(0, 100, "run", 0), St(0, 0, "run", 0) >>],
       [colorIndex |-> 1,
        stitches |-> << St(50, 50, "run", 1), St(150, 50, "run", 1),
                        St(100, 150, "run", 1), St(50, 50, "run", 1) >>] >>

\* testDesign of createTestDesign; newId is its crypto.randomUUID()
testDesign(newId) == [MakeDesign(TestPattern, RInt(15), RInt(15)) EXCEPT !.id = newId]

\* the files handleFileUpload is given: a DST file of three stitches named
\* "a.dst", and a file of three bytes named "b.dst"
Uploads ==
    { [ buffer |-> LabelledHeader \o <<1, 0, 3, 1, 0, 3, 1, 0, 3, 0, 0, 243>>,
        fileName |-> <<97, 46, 100, 115, 116>> ],
      [ buffer |-> <<76, 65, 58>>, fileName |-> <<98, 46, 100, 115, 116>> ] }

\* a parsed document as an object of the engine: it has no modifiedAt yet
asLoaded(document) ==
    [document EXCEPT !.metadata = [modifiedAt |-> NONE] @@ @]

\* the values the slider is moved to (it runs from 20 to 200)
SliderValues == {20, 50, 100, 150, 200}

\* the state App mounts in, its effect run once: originalDesign is null
AppInit ==
    /\ OnlyApp
    /\ uOriginal = NONE
    /\ uScaled = NONE
    /\ uScale = 100
    /\ uResults = <<>>
    /\ uIsScaling = FALSE
    /\ uTimer = NONE
    /\ uLoads = 0

\* the effect, run after the cleanup of the one before it has cleared the
\* timeout: what it leaves of scaledDesign, validationResults, isScaling and
\* the timeout
scalingEffect(original, percent, scaled, results, scaling) ==
    IF original = NONE \/ percent = 100
    THEN [ scaledDesign |-> original, validationResults |-> <<>>,
           isScaling |-> scaling, timer |-> NONE ]
    ELSE [ scaledDesign |-> scaled, validationResults |-> results,
           isScaling |-> TRUE,
           timer |-> Some([originalDesign |-> original[1], scale |-> percent]) ]

\* the render after originalDesign or scale changed, and its effect
Rerender(original, percent, scaled) ==
    /\ uOriginal' = original
    /\ uScale' = percent
    /\ \E after \in { scalingEffect(original, percent, scaled, uResults, uIsScaling) } :
           /\ uScaled' = after.scaledDesign
           /\ uResults' = after.validationResults
           /\ uIsScaling' = after.isScaling
           /\ uTimer' = after.timer

\* setOriginalDesign(d); setScaledDesign(d); setScale(100);
Load(d) ==
    /\ uLoads' = uLoads + 1
    /\ Rerender(Some(d), 100, Some(d))
    /\ UNCHANGED notApp

CreateTestDesign ==
    /\ uLoads < MaxLoads
    /\ Load(testDesign(uLoads + 1))

\* handleFileUpload from parseEmbroideryFile on; a file that does not parse
\* ends in the alert of the catch
FileUpload ==
    /\ uLoads < MaxLoads
    /\ \E file \in Uploads :
           \E outcome \in { parseEmbroideryFile(file.buffer, file.fileName, uLoads + 1) } :
               IF outcome.kind = "parsed" THEN Load(asLoaded(outcome.design))
               ELSE UNCHANGED vars

\* onChange of the slider, shown when there is a document: setScale(value)
SetScale ==
    /\ uOriginal # NONE
    /\ uScaled # NONE
    /\ \E value \in SliderValues :
           /\ value # uScale
           /\ Rerender(uOriginal, value, uScaled)
    /\ UNCHANGED <<uLoads, notApp>>

\* what the callback of the timeout sets scaledDesign to
scaledOrOriginal(outcome, original) ==
    IF outcome.success /\ outcome.hasDesign THEN Some(outcome.design) ELSE Some(original)

\* scaleDesign as the callback calls it; the new document's id and date are
\* left at 0
scaleDesignIn(original, percent) ==
    scaleDesign(original,
                [ scalePercent |-> RInt(percent), preserveAspectRatio |-> Some(TRUE),
                  targetWidth |-> NONE, targetHeight |-> NONE ],
                [ safeMode |-> TRUE, targetDensityMm |-> Rat(425, 1000) ], 0, 0)

\* the callback of the timeout, 300 ms after the effect set it
TimerFires ==
    /\ uTimer # NONE
    /\ \E outcome \in { scaleDesignIn(uTimer[1].originalDesign, uTimer[1].scale) } :
           /\ uScaled' = scaledOrOriginal(outcome, uTimer[1].originalDesign)
           /\ uResults' = outcome.validationResults
    /\ uIsScaling' = FALSE
    /\ uTimer' = NONE
    /\ UNCHANGED <<uOriginal, uScale, uLoads, notApp>>

AppNext == CreateTestDesign \/ FileUpload \/ SetScale \/ TimerFires

AppSpec == AppInit /\ [][AppNext]_vars

(***************************************************************************)
(* The engine's contract, stated on the last call: input is the document   *)
(* it was handed, call its parameters, result its outcome and design the   *)
(* document the caller holds afterwards.                                   *)
(***************************************************************************)
Called == result.kind # "none"
Returned == result.kind = "returned"
Succeeded == result.kind = "returned" /\ result.success
HasSizing(p) == p.scalePercent # NONE \/ p.targetWidth # NONE \/ p.targetHeight # NONE

\* what the stages before the gate compute for the last call (it has a
\* sizing parameter)
ExpectedScale ==
    calculateScaleFactor(input.metadata.originalWidthMm,
                         input.metadata.originalHeightMm, call)
ExpectedBefore == calculateDensityMetrics(input.colorBlocks)
ExpectedValidation ==
    validateAll([ originalWidth |-> input.metadata.originalWidthMm,
                  originalHeight |-> input.metadata.originalHeightMm,
                  newWidth |-> ExpectedScale.newWidth,
                  newHeight |-> ExpectedScale.newHeight,
                  newDensityMm |-> RMul(ExpectedBefore.averageDensityMm,
                                        ExpectedScale.scale),
                  minStitchLength |-> RMul(ExpectedBefore.minStitchLengthMm,
                                           ExpectedScale.scale),
                  maxStitchLength |-> RMul(ExpectedBefore.maxStitchLengthMm,
                                           ExpectedScale.scale),
                  machineProfile |-> input.machineProfile ])

HasCritical(results) == \E i \in 1..Len(results) : results[i].level = "critical"

\* C1: in safe mode, a call whose validation says canProceed = false returns
\* (it does not throw) success = false, no design, an error message, the
\* whole validation list and afterMetrics equal to beforeMetrics; a document
\* of originalWidthMm 100 rescaled by scalePercent 200 in safe mode is blocked
\* with a critical entry in the list.
C1_SafeModeGate ==
    /\ (Called /\ HasSizing(call) /\ config.safeMode /\ ~ExpectedValidation.canProceed)
          => /\ result.kind = "returned"
             /\ result.success = FALSE
             /\ ~result.hasDesign
             /\ result.design = NONE
             /\ result.error = "Scaling operation blocked by safe mode. Validation failed."
             /\ result.validationResults = ExpectedValidation.results
             /\ result.beforeMetrics = ExpectedBefore
             /\ result.afterMetrics = result.beforeMetrics
             /\ design = input
    /\ (Called /\ config.safeMode /\ input.metadata.originalWidthMm = RInt(100)
               /\ call.scalePercent = RInt(200))
          => /\ result.kind = "returned"
             /\ result.success = FALSE
             /\ HasCritical(result.validationResults)

C1_Witness ==
    /\ Called /\ config.safeMode
    /\ input.metadata.originalWidthMm = RInt(100)
    /\ call.scalePercent = RInt(200)
    /\ ~ExpectedValidation.canProceed
    /\ result.kind = "returned" /\ ~result.success

\* C2: with safeMode off, a call with at least one sizing parameter returns
\* success = true with a design whatever the validation levels are, and the
\* validation list of every returned outcome (success or block) is the list
\* validateAll produced.
C2_UnsafeModeProceeds ==
    /\ (Called /\ HasSizing(call) /\ ~config.safeMode)
          => /\ result.kind = "returned"
             /\ result.success
             /\ result.hasDesign
             /\ design = result.design
             /\ design.id # input.id
    /\ (Called /\ HasSizing(call))
          => /\ result.kind = "returned"
             /\ result.validationResults = ExpectedValidation.results

C2_Witness ==
    /\ Called /\ HasSizing(call) /\ ~config.safeMode
    /\ ~ExpectedValidation.canProceed
    /\ HasCritical(result.validationResults)
    /\ result.success /\ result.hasDesign

\* C3: the scaleFactor of a successfully rescaled document is the input
\* document's scaleFactor multiplied by the scale of the step.
C3_ScaleFactorCumulative ==
    Succeeded =>
        design.metadata.scaleFactor = RMul(input.metadata.scaleFactor, result.scale)

\* the jump, trim, stop and end stitches of a block, in their order
SpecialTypes == {"jump", "trim", "stop", "end"}
IsSpecial(stitch) == stitch.type \in SpecialTypes
Specials(stitches) == SelectSeq(stitches, IsSpecial)
\* a stitch with its position multiplied by k
Moved(stitch, k) ==
    [ position |-> [x |-> RMul(stitch.position.x, k), y |-> RMul(stitch.position.y, k)],
      type |-> stitch.type,
      colorIndex |-> stitch.colorIndex ]
MovedAll(stitches, k) == [i \in 1..Len(stitches) |-> Moved(stitches[i], k)]

\* C4: after a successful rescale by any scale, every color block holds the
\* special stitches (jump, trim, stop, end) of the input block, as many and in
\* the same order, each at the input position multiplied by the scale.
C4_SpecialStitchConservation ==
    Succeeded =>
        /\ Len(design.colorBlocks) = Len(input.colorBlocks)
        /\ \A b \in 1..Len(input.colorBlocks) :
               Specials(design.colorBlocks[b].stitches)
                   = MovedAll(Specials(input.colorBlocks[b].stitches), result.scale)

\* an upscale that interpolated stitches into a document with special
\* stitches, after a downscale that removed stitches from it
C4_Witness ==
    /\ Succeeded
    /\ RLt(RInt(1), result.scale)
    /\ TotalStitches(design.colorBlocks) > TotalStitches(input.colorBlocks)
    /\ TotalStitches(input.colorBlocks) < TotalStitches(imported.colorBlocks)
    /\ \E b \in 1..Len(input.colorBlocks) :
           Len(Specials(input.colorBlocks[b].stitches)) > 0

\* C5: a successful rescale by scalePercent 100 gives a document equal to
\* the input in every field but id and metadata.modifiedAt.
C5_IdempotentAtUnitScale ==
    (Succeeded /\ call.scalePercent = RInt(100)) =>
        [design EXCEPT !.id = 0, !.metadata.modifiedAt = 0]
            = [input EXCEPT !.id = 0, !.metadata.modifiedAt = 0]

\* 0.7 * targetDensityMm * 10, the least distance the reduction keeps
LeastKeptDistance == RMul(RMul(Rat(7, 10), config.targetDensityMm), RInt(10))

\* C6: after a successful downscale (scale < 1), in every block each
\* non-special stitch but the first is at distance at least
\* 0.7 * targetDensityMm * 10 units from the stitch before it in the output,
\* and the first stitch of the block is the input's first stitch, kept.
C6_DownscaleSpacing ==
    (Succeeded /\ RLt(result.scale, RInt(1))) =>
        \A b \in 1..Len(design.colorBlocks) :
            /\ Len(input.colorBlocks[b].stitches) >= 1 =>
                   /\ Len(design.colorBlocks[b].stitches) >= 1
                   /\ design.colorBlocks[b].stitches[1]
                          = Moved(input.colorBlocks[b].stitches[1], result.scale)
            /\ \A i \in 2..Len(design.colorBlocks[b].stitches) :
                   ~IsSpecial(design.colorBlocks[b].stitches[i]) =>
                       RLe(RMul(LeastKeptDistance, LeastKeptDistance),
                           DistSq(design.colorBlocks[b].stitches[i - 1].position,
                                  design.colorBlocks[b].stitches[i].position))

\* a downscale that removed a stitch and kept a non-special one after the first
C6_Witness ==
    /\ Succeeded
    /\ RLt(result.scale, RInt(1))
    /\ TotalStitches(design.colorBlocks) < TotalStitches(input.colorBlocks)
    /\ \E b \in 1..Len(design.colorBlocks) :
           \E i \in 2..Len(design.colorBlocks[b].stitches) :
               ~IsSpecial(design.colorBlocks[b].stitches[i])

(***************************************************************************)
(* The round trips of the codecs, stated when the file written from cdoc   *)
(* has been parsed.                                                        *)
(***************************************************************************)
RoundTripped(format) == cfmt = format /\ cout # <<>>

\* the stitches of block k of a parsed document, without the stop marker
\* that parse puts at the head of a block it opens at a color change
WithoutMarker(colorBlocks, k) ==
    IF k > 1 /\ Len(colorBlocks[k].stitches) > 0
       /\ colorBlocks[k].stitches[1].type = "stop"
    THEN Tail(colorBlocks[k].stitches)
    ELSE colorBlocks[k].stitches

\* p is within one unit of q moved by (cx, cy), on both axes
Within1(p, q, cx, cy) ==
    /\ RLe(RAbs(RSub(p.x, RAdd(q.x, cx))), RInt(1))
    /\ RLe(RAbs(RSub(p.y, RAdd(q.y, cy))), RInt(1))

\* the blocks parsed are the blocks written: as many, in their order, each
\* with as many stitches, each stitch within one unit of where it was
SameBlocks(written, parsed, cx, cy) ==
    /\ Len(parsed) = Len(written)
    /\ \A k \in 1..Len(written) :
           /\ Len(WithoutMarker(parsed, k)) = Len(written[k].stitches)
           /\ \A i \in 1..Len(written[k].stitches) :
                  Within1(written[k].stitches[i].position,
                          WithoutMarker(parsed, k)[i].position, cx, cy)

\* C7: DST round trip.  For a document of run and jump stitches at integer
\* positions in non-empty blocks, parseDST(writeDST(D)) returns a document
\* with as many color blocks as D, in order, each with as many stitches as
\* D's (the stop marker parse inserts at a block boundary apart) and every
\* stitch within 1 unit of its position in D.
C7_DSTRoundTrip ==
    RoundTripped("DST") =>
        /\ cout[1].kind = "parsed"
        /\ SameBlocks(cdoc.colorBlocks, cout[1].design.colorBlocks, RInt(0), RInt(0))

\* C8: PES round trip.  parsePES(writePES(D)) returns a document (it raises
\* no buffer overrun) with as many color blocks as D, in order, every stitch
\* within 1 unit of its position in D once the centre the writer subtracted
\* is added again, and with as many threads as D.
C8_PESRoundTrip ==
    RoundTripped("PES") =>
        /\ cout[1].kind = "parsed"
        /\ Len(cout[1].design.threads) = Len(cdoc.threads)
        /\ SameBlocks(cdoc.colorBlocks, cout[1].design.colorBlocks,
                      centerOf(calculateBounds(cdoc.colorBlocks)).x,
                      centerOf(calculateBounds(cdoc.colorBlocks)).y)

\* C9: aspect preservation.  A calculateScaleFactor call with both targets
\* and preserveAspectRatio true (given, or left to its default): without a
\* scalePercent it returns the smaller of targetWidth / W and targetHeight / H
\* as the scale, newWidth = W * scale <= targetWidth and newHeight =
\* H * scale <= targetHeight; with a scalePercent it returns scale =
\* scalePercent / 100 whatever the targets are.
AspectPreserving ==
    /\ sized # <<>>
    /\ sizing.params.targetWidth # NONE
    /\ sizing.params.targetHeight # NONE
    /\ sizing.params.preserveAspectRatio \in {NONE, Some(TRUE)}

WidthRatio == RDiv(sizing.params.targetWidth, sizing.originalWidth)
HeightRatio == RDiv(sizing.params.targetHeight, sizing.originalHeight)

C10_NoParamsThrows ==
    /\ (Called /\ ~HasSizing(call))
          => /\ result.kind = "thrown"
             /\ result.error = "Must specify targetWidth, targetHeight, or scalePercent"
             /\ result.steps = {"scaleFactor"}
             /\ design = input
    /\ (Called /\ HasSizing(call)) => result.kind = "returned"
    /\ (Called /\ result.kind = "returned" /\ ~result.success)
          => /\ config.safeMode
             /\ {"metrics", "validation"} \subseteq result.steps

\* a call without sizing parameters on the document an earlier call produced
C10_Witness ==
    /\ Called /\ ~HasSizing(call)
    /\ result.kind = "thrown"
    /\ calls > 1
    /\ design # imported

(***************************************************************************)
(* The validation engine's contract, stated on the one call made.          *)
(***************************************************************************)
Checked(op) == checked # <<>> /\ checking.op = op

\* |(new - original) / original * 100|, for original # 0
PercentChanged(original, newSize) ==
    RAbs(RMul(RDiv(RSub(newSize, original), original), RInt(100)))

GradeOfChange(percent) ==
    IF RLe(percent, RInt(20)) THEN "safe"
    ELSE IF RLe(percent, RInt(30)) THEN "warning"
    ELSE IF RLe(percent, RInt(50)) THEN "danger"
    ELSE "critical"

\* the size as far below the original as newSize is above it, and conversely
Mirrored(original, newSize) == RSub(RAdd(original, original), newSize)

\* C11: validateResizePercentage grades the absolute percentage of change
\* with inclusive upper limits (at most 20 safe, at most 30 warning, at most
\* 50 danger, above 50 critical), canProceed is false exactly for critical,
\* and a shrink grades as the growth by the same percentage does.
C11_ResizeGrades ==
    (Checked("validateResizePercentage") /\ checking.originalSize # RInt(0)) =>
        /\ checked[1].level =
               GradeOfChange(PercentChanged(checking.originalSize, checking.newSize))
        /\ checked[1].canProceed = (checked[1].level # "critical")
        /\ checked[1].level =
               validateResizePercentage(checking.originalSize,
                   Mirrored(checking.originalSize, checking.newSize)).level

\* 100 -> 120 is exactly 20 percent and is graded safe
C11_Witness ==
    /\ Checked("validateResizePercentage")
    /\ checking.originalSize = RInt(100)
    /\ checking.newSize = RInt(120)
    /\ checked[1].level = "safe"

\* 100 -> 120.001 is graded warning, and so is 100 -> 79.999
C11_JustAbove ==
    (/\ Checked("validateResizePercentage")
     /\ checking.originalSize = RInt(100)
     /\ checking.newSize \in {Rat(120001, 1000), Rat(79999, 1000)})
        => checked[1].level = "warning"

GradeOfDensity(d) ==
    IF RLt(d, Rat(2, 10)) THEN "critical"
    ELSE IF RLt(d, Rat(4, 10)) THEN "warning"
    ELSE IF RLe(d, Rat(45, 100)) THEN "safe"
    ELSE IF RLe(d, RInt(1)) THEN "warning"
    ELSE "danger"

\* C12: validateStitchDensity(d) is critical and blocked iff d < 0.2, warning
\* for 0.2 <= d < 0.4, safe for 0.4 <= d <= 0.45, warning for 0.45 < d <= 1
\* and danger above 1; every level but critical may proceed.
C12_DensityGrades ==
    Checked("validateStitchDensity") =>
        /\ checked[1].level = GradeOfDensity(checking.densityMm)
        /\ checked[1].canProceed = (checked[1].level # "critical")
        /\ RLt(RInt(1), checking.densityMm) => checked[1].canProceed

\* 0.45 is safe
C12_Witness ==
    /\ Checked("validateStitchDensity")
    /\ checking.densityMm = Rat(45, 100)
    /\ checked[1].level = "safe"

\* 0.450001 is warning and a density above 1 is danger and proceeds
C12_Around ==
    Checked("validateStitchDensity") =>
        /\ checking.densityMm = Rat(450001, 1000000) => checked[1].level = "warning"
        /\ checking.densityMm = RInt(3) =>
               checked[1].level = "danger" /\ checked[1].canProceed

\* an entry that is listed only when its arguments were provided
ListedIf(provided, entry) == IF provided THEN <<entry>> ELSE <<>>

OrderedChecks(p) ==
    << validateResizePercentage(p.originalWidth, p.newWidth) >>
    \o << validateResizePercentage(p.originalHeight, p.newHeight) >>
    \o ListedIf(p.newDensityMm # NONE, validateStitchDensity(p.newDensityMm))
    \o << validateDimensions(p.newWidth, p.newHeight, p.machineProfile) >>
    \o ListedIf(p.minStitchLength # NONE /\ p.maxStitchLength # NONE,
                validateStitchLength(p.minStitchLength, p.maxStitchLength,
                                     p.machineProfile))

\* C13: validateAll lists width resize, height resize, density (only if
\* provided), dimensions, stitch length (only if both lengths are provided)
\* in that order, three to five entries, and its canProceed is the
\* conjunction of the entries' canProceed.
C13_ValidateAllOrder ==
    Checked("validateAll") =>
        /\ checked[1].results = OrderedChecks(checking.params)
        /\ Len(checked[1].results) \in 3..5
        /\ checked[1].canProceed =
               (\A i \in 1..Len(checked[1].results) : checked[1].results[i].canProceed)

\* five entries of which the first alone is blocked
C13_Witness ==
    /\ Checked("validateAll")
    /\ Len(checked[1].results) = 5
    /\ ~checked[1].results[1].canProceed
    /\ \A i \in 2..5 : checked[1].results[i].canProceed
    /\ ~checked[1].canProceed

\* three entries when neither the density nor both lengths are provided
C13_Shortest ==
    (/\ Checked("validateAll")
     /\ checking.params.newDensityMm = NONE
     /\ checking.params.minStitchLength = NONE \/ checking.params.maxStitchLength = NONE)
        => Len(checked[1].results) = 3

Exceeds(width, height, profile) ==
    RLt(profile.maxHoopWidthMm, width) \/ RLt(profile.maxHoopHeightMm, height)

\* less than 5 mm left to the hoop limit on either axis
CloseToHoop(width, height, profile) ==
    \/ RLt(RSub(profile.maxHoopWidthMm, width), RInt(5))
    \/ RLt(RSub(profile.maxHoopHeightMm, height), RInt(5))

GradeOfDimensions(width, height, profile) ==
    IF Exceeds(width, height, profile) THEN "critical"
    ELSE IF CloseToHoop(width, height, profile) THEN "warning"
    ELSE "safe"

\* C14: validateDimensions is critical and blocked iff the width or the
\* height exceeds the hoop; otherwise warning (proceeding) iff less than 5 mm
\* of margin is left on either axis; otherwise safe.  A design exactly as
\* large as the hoop is a warning.
C14_DimensionGrades ==
    Checked("validateDimensions") =>
        /\ checked[1].level =
               GradeOfDimensions(checking.width, checking.height, checking.machineProfile)
        /\ checked[1].canProceed = (checked[1].level # "critical")

\* a design exactly as large as the hoop is a warning that may proceed
C14_Witness ==
    /\ Checked("validateDimensions")
    /\ checking.width = checking.machineProfile.maxHoopWidthMm
    /\ checking.height = checking.machineProfile.maxHoopHeightMm
    /\ checked[1].level = "warning"
    /\ checked[1].canProceed

\* a margin of exactly 5 mm on both axes is safe
C14_MarginOfFive ==
    (/\ Checked("validateDimensions")
     /\ checking.width = RInt(95)
     /\ checking.height = RInt(95)) => checked[1].level = "safe"

(***************************************************************************)
(* The engine's contract on objects, stated on the last call: given is the *)
(* document it was handed, atCall the heap as it was then.                 *)
(***************************************************************************)
PercentCall(p) ==
    [ scalePercent |-> RInt(p), targetWidth |-> NONE,
      targetHeight |-> NONE, preserveAspectRatio |-> NONE ]

\* the document a successful call returns holds the value that applyScaling
\* computes from the value of the document given
StoreAgrees ==
    returned.success =>
        \E p \in ScalePercents :
            applyScaling(documentAt(atCall, given), PercentCall(p),
                         [ targetDensityMm |-> heap[ConfigIn(heap)].targetDensityMm,
                           safeMode |-> heap[ConfigIn(heap)].safeMode,
                           machineProfile |-> NONE ],
                         hcalls, hcalls).design
                = documentAt(heap, returned.designAt)

\* C15: a rescale never mutates its input.  After applyScaling(D, params)
\* has returned or thrown (success, safe-mode block or missing parameters)
\* every object of D (the document, its metadata, its blocks, stitches and
\* positions) is as it was at the call; on success the result is another
\* document object with another id and shares no stitch object with D.
C15_InputNotMutated ==
    hcalls > 0 =>
        /\ \A a \in ObjectsOf(atCall, given) : heap[a] = atCall[a]
        /\ documentAt(heap, given) = documentAt(atCall, given)
        /\ returned.success =>
               /\ returned.designAt \notin 1..Len(atCall)
               /\ heap[returned.designAt].id # heap[given].id
               /\ StitchObjectsUnder(heap, heap[returned.designAt].colorBlocks)
                      \cap StitchObjectsUnder(heap, heap[given].colorBlocks) = {}

\* a successful call whose result holds other positions than its input
C15_Witness ==
    /\ hcalls > 0
    /\ returned.success
    /\ documentAt(heap, returned.designAt).colorBlocks
           # documentAt(heap, given).colorBlocks
    /\ documentAt(heap, given) = documentAt(atCall, given)

(***************************************************************************)
(* What the parsers and the engine emit.                                   *)
(***************************************************************************)
Opened == iout # <<>> /\ iout[1].kind = "parsed"
OpenedBy(function) == ivia = function /\ Opened

NoEmptyBlock(colorBlocks) ==
    \A b \in 1..Len(colorBlocks) : Len(colorBlocks[b].stitches) > 0

\* the parsers' part of C16: a document that parseDST, parsePES or
\* parseEmbroideryFile returns holds no empty block
ParsersEmitNoEmptyBlock ==
    /\ Opened => NoEmptyBlock(iout[1].design.colorBlocks)
    /\ (cout # <<>> /\ cout[1].kind = "parsed") => NoEmptyBlock(cout[1].design.colorBlocks)

\* a color change at the start of the stream, where the current block is
\* empty, is reached and leaves no empty block behind
LeadingColorChangeOpened ==
    /\ OpenedBy("parseDST")
    /\ ibuf = LabelledHeader \o <<0, 0, 195, 1, 0, 3>>
    /\ Len(iout[1].design.colorBlocks) = 1

\* the engine's part of C16 on the documents that hold no empty block
RescaleAddsNoEmptyBlock ==
    (Succeeded /\ NoEmptyBlock(input.colorBlocks)) => NoEmptyBlock(result.design.colorBlocks)

\* C16: no empty color block is ever emitted.  Every block of a document
\* returned by parseDST, parsePES or a successful rescale holds at least one
\* stitch, whatever the input: also when the document handed to the rescale
\* already holds an empty block.
C16_NoEmptyBlockEmitted ==
    /\ ParsersEmitNoEmptyBlock
    /\ Succeeded => NoEmptyBlock(result.design.colorBlocks)

IndexInto(threads, colorIndex) == 0 <= colorIndex /\ colorIndex < Len(threads)

ValidColorIndices(doc) ==
    \A b \in 1..Len(doc.colorBlocks) :
        /\ IndexInto(doc.threads, doc.colorBlocks[b].colorIndex)
        /\ \A i \in 1..Len(doc.colorBlocks[b].stitches) :
               IndexInto(doc.threads, doc.colorBlocks[b].stitches[i].colorIndex)

\* the PES part of C17: parsePES takes every color index modulo the color
\* count, which is the number of threads
PESIndicesValid ==
    (Opened /\ iout[1].design.originalFormat = "PES") => ValidColorIndices(iout[1].design)

\* more color changes than colors are reached, and wrap around
PESIndicesWrapped ==
    /\ OpenedBy("parsePES")
    /\ Len(iout[1].design.colorBlocks) > Len(iout[1].design.threads)

\* the DST part of C17 fails exactly where the first block pushed is not the
\* block opened at the start of the stream
DSTIndicesValidFromZero ==
    (Opened /\ iout[1].design.originalFormat = "DST" /\ iout[1].design.colorBlocks # <<>>) =>
        (ValidColorIndices(iout[1].design) <=> iout[1].design.colorBlocks[1].colorIndex = 0)

\* C17: in every document that parseDST or parsePES returns, for any record
\* stream (one that begins with a color change included), the colorIndex of
\* every block and of every stitch is an index into the document's threads:
\* 0 <= colorIndex < threads.length.
C17_ColorIndicesValid ==
    /\ Opened => ValidColorIndices(iout[1].design)
    /\ (cout # <<>> /\ cout[1].kind = "parsed") => ValidColorIndices(cout[1].design)

(***************************************************************************)
(* The dispatch of parseEmbroideryFile, stated on the one call made.  The  *)
(* extension of a name is what follows its last dot, in any case; a name   *)
(* without a dot is its own extension.                                     *)
(***************************************************************************)
OpenedAnyFile == ivia = "parseEmbroideryFile" /\ iout # <<>>

\* "#PES" at the start; "LA:" or "ST:" within the first 512 bytes of at
\* least 512
HasMagic(buffer) ==
    /\ Len(buffer) >= 4
    /\ <<buffer[1], buffer[2], buffer[3], buffer[4]>> = <<35, 80, 69, 83>>
HasMarker(buffer) ==
    /\ Len(buffer) >= 512
    /\ \E i \in 1..510 :
           <<buffer[i], buffer[i + 1], buffer[i + 2]>> \in { <<76, 65, 58>>, <<83, 84, 58>> }

Unsupported == ParseError("Unsupported embroidery file format. Supported formats: PES, DST")

\* C18: parseEmbroideryFile dispatches by the extension of the file name
\* first (pes to the PES parser, dst to the DST parser, in any case); with
\* no name or another extension it goes by the content, the PES magic first
\* and the DST header markers second; and when neither the extension nor the
\* content matches it fails with the unsupported-format error and returns
\* no document.
C18_Dispatch ==
    OpenedAnyFile =>
        /\ iname \in PESNames => iout[1] = withFileName(parsePES(ibuf, 1), iname)
        /\ iname \in DSTNames => iout[1] = withFileName(parseDST(ibuf, 1), iname)
        /\ (iname \in OtherNames \cup {NONE} /\ HasMagic(ibuf)) =>
               iout[1] = withFileName(parsePES(ibuf, 1), iname)
        /\ (iname \in OtherNames \cup {NONE} /\ ~HasMagic(ibuf) /\ HasMarker(ibuf)) =>
               iout[1] = withFileName(parseDST(ibuf, 1), iname)
        /\ (iname \in OtherNames \cup {NONE} /\ ~HasMagic(ibuf) /\ ~HasMarker(ibuf)) =>
               iout[1] = Unsupported
        /\ iout[1] = Unsupported =>
               (iname \in OtherNames \cup {NONE} /\ ~HasMagic(ibuf) /\ ~HasMarker(ibuf))

\* a DST file named "A.PES" goes to the PES parser, which rejects it
C18_Witness ==
    /\ OpenedAnyFile
    /\ iname = <<65, 46, 80, 69, 83>>
    /\ HasMarker(ibuf)
    /\ iout[1] = ParseError("Invalid PES file")

\* the other routes are taken too: by content to each parser, and to the
\* unsupported-format error
C18_ByContentToPES ==
    OpenedAnyFile /\ iname = NONE /\ HasMagic(ibuf) /\ iout[1].kind = "parsed"
C18_ByContentToDST ==
    OpenedAnyFile /\ iname = <<97, 46, 116, 120, 116>> /\ HasMarker(ibuf)
    /\ iout[1].kind = "parsed" /\ iout[1].design.originalFormat = "DST"
C18_Unsupported ==
    OpenedAnyFile /\ iname = NONE /\ Len(ibuf) > 512 /\ iout[1] = Unsupported

\* detectFormat sniffs as the fallback does
DetectsAsDispatched ==
    (OpenedAnyFile /\ iname = NONE) =>
        /\ detectFormat(ibuf) = "null" <=> iout[1] = Unsupported
        /\ detectFormat(ibuf) = "PES" <=> iout[1] = parsePES(ibuf, 1)

(***************************************************************************)
(* What a chain of rescales keeps of the imported document.                *)
(***************************************************************************)
RECURSIVE StitchesIn(_)
StitchesIn(blocks) ==
    IF blocks = <<>> THEN 0 ELSE Len(Head(blocks).stitches) + StitchesIn(Tail(blocks))

KeepsImport(d) ==
    /\ d.metadata.originalWidthMm = imported.metadata.originalWidthMm
    /\ d.metadata.originalHeightMm = imported.metadata.originalHeightMm
    /\ d.metadata.originalStitchCount = imported.metadata.originalStitchCount
    /\ d.name = imported.name
    /\ d.originalFormat = imported.originalFormat
    /\ d.threads = imported.threads
    /\ d.machineProfile = imported.machineProfile

\* C19: after any sequence of successful rescales of an imported document
\* the output's original width, height and stitch count, its name, format,
\* threads and machine profile are the imported document's, and its current
\* stitch count is the number of stitches in its own color blocks.
C19_OriginalsKept ==
    /\ KeepsImport(design)
    /\ design.metadata.currentStitchCount = StitchesIn(design.colorBlocks)
    /\ Succeeded =>
           /\ result.design = design
           /\ KeepsImport(result.design)
           /\ result.design.metadata.currentStitchCount
                  = StitchesIn(result.design.colorBlocks)

\* the second of two successful rescales, made on the output of the first,
\* whose stitch count was no longer the imported one
C19_Witness ==
    /\ calls = 2
    /\ Succeeded
    /\ input # imported
    /\ input.metadata.currentStitchCount # imported.metadata.originalStitchCount
    /\ StitchesIn(design.colorBlocks) # StitchesIn(input.colorBlocks)

(***************************************************************************)
(* The typed reads of the BinaryReader, stated on the last read made.      *)
(***************************************************************************)
TypedReads ==
    { <<"readUInt8", 1>>, <<"readInt8", 1>>,
      <<"readUInt16LE", 2>>, <<"readUInt16BE", 2>>, <<"readInt16LE", 2>>, <<"readInt16BE", 2>>,
      <<"readUInt32LE", 4>>, <<"readUInt32BE", 4>>, <<"readInt32LE", 4>> }
ReadMade == <<rlast.op, rlast.width>> \in TypedReads

\* the bytes at offsets o .. o + w - 1, in the order they lie in the buffer
BytesAt(o, w) == SubSeq(rbuf, o + 1, o + w)
\* the number those bytes spell, the first of them the least significant
RECURSIVE LittleEndian(_)
LittleEndian(bytes) ==
    IF bytes = <<>> THEN 0 ELSE Head(bytes) + 256 * LittleEndian(Tail(bytes))
RECURSIVE Backwards(_)
Backwards(bytes) ==
    IF bytes = <<>> THEN <<>> ELSE Append(Backwards(Tail(bytes)), Head(bytes))
Spelled(op, bytes) ==
    IF op \in {"readUInt16BE", "readInt16BE", "readUInt32BE"}
    THEN LittleEndian(Backwards(bytes)) ELSE LittleEndian(bytes)
\* as a signed number of that many bytes, when the read is a signed one
TopBit(w) == IF w = 1 THEN 128 ELSE IF w = 2 THEN 32768 ELSE 0
Read32Signed(bytes) ==
    LittleEndian(SubSeq(bytes, 1, 3)) + 16777216 * (IF bytes[4] >= 128 THEN bytes[4] - 256 ELSE bytes[4])
ValueRead(op, bytes) ==
    IF op = "readInt32LE" THEN Read32Signed(bytes)
    ELSE IF op \in {"readInt8", "readInt16LE", "readInt16BE"} /\ Spelled(op, bytes) >= TopBit(Len(bytes))
    THEN Spelled(op, bytes) - 2 * TopBit(Len(bytes))
    ELSE Spelled(op, bytes)

\* C20: a typed read of width w (1, 2 or 4) made at offset o of a buffer of
\* N bytes returns a value only if 0 <= o and o + w <= N, the value is the
\* one the w bytes at o spell, and the offset is then o + w; when fewer
\* than w bytes remain the read throws and the offset stays at o.
C20_ReadBounds ==
    ReadMade =>
        /\ rlast.outcome.kind \in {"value", "thrown"}
        /\ rlast.outcome.kind = "value" =>
               /\ 0 <= rlast.at
               /\ rlast.at + rlast.width <= Len(rbuf)
               /\ roff = rlast.at + rlast.width
               /\ rlast.outcome.value = ValueRead(rlast.op, BytesAt(rlast.at, rlast.width))
        /\ Len(rbuf) - rlast.at < rlast.width =>
               /\ rlast.outcome.kind = "thrown"
               /\ roff = rlast.at
        /\ rlast.outcome.kind = "thrown" => roff = rlast.at

\* a 16-bit read with one byte left, after an earlier operation moved the
\* offset there: it throws and the offset stays
C20_Witness ==
    /\ ReadMade
    /\ rlast.width = 2
    /\ rlast.at = Len(rbuf) - 1
    /\ rlast.at > 0
    /\ rlast.outcome.kind = "thrown"
    /\ roff = rlast.at

\* the other cases happen too: a read of the last four bytes, a read at a
\* negative offset, a signed read of a negative value
C20_ReadsToTheEnd ==
    ReadMade /\ rlast.width = 4 /\ rlast.at = 1 /\ roff = Len(rbuf)
    /\ rlast.outcome.kind = "value"
C20_ReadsBeforeTheStart ==
    ReadMade /\ rlast.at < 0 /\ rlast.outcome.kind = "thrown"
C20_ReadsNegative ==
    ReadMade /\ rlast.op = "readInt16BE" /\ rlast.outcome.kind = "value"
    /\ rlast.outcome.value = -32767

(***************************************************************************)
(* The stitches an upscale inserts, counted pair by pair on the scaled     *)
(* input.                                                                  *)
(***************************************************************************)
Upscaled == Succeeded /\ RLt(RInt(1), result.scale)
\* T, the target density in 1/10 mm
TargetUnits == RMul(config.targetDensityMm, RInt(10))
SquareOf(a) == RMul(a, a)
\* the square of the distance between two stitches
SquaredGap(a, b) ==
    RAdd(SquareOf(RSub(b.position.x, a.position.x)),
         SquareOf(RSub(b.position.y, a.position.y)))
\* floor(d / T) for the distance d whose square is d2
WholeSteps(d2, T) ==
    CHOOSE n \in 0..200 :
        /\ RLe(SquareOf(RMul(RInt(n), T)), d2)
        /\ RLt(d2, SquareOf(RMul(RInt(n + 1), T)))
\* how many stitches the claim has inserted between a and b
InsertedBetween(a, b, T) ==
    IF a.type \in {"jump", "trim", "stop", "end"} THEN 0
    ELSE IF RLe(SquaredGap(a, b), SquareOf(RMul(Rat(3, 2), T))) THEN 0
    ELSE WholeSteps(SquaredGap(a, b), T) - 1
\* how many stitches the claim has inserted after each stitch but the last
InsertedCounts(stitches, T) ==
    FoldOver(LAMBDA counts, k :
                 Append(counts, InsertedBetween(stitches[k], stitches[k + 1], T)),
             <<>>, 1, Len(stitches) - 1)
\* how many stitches the claim has inserted before each stitch
InsertedBefore(counts) ==
    FoldOver(LAMBDA before, k : Append(before, before[k] + counts[k]),
             <<0>>, 1, Len(counts))
\* the point a fraction t of the way from a to b
PointBetween(a, b, t) ==
    [ x |-> RAdd(a.position.x, RMul(t, RSub(b.position.x, a.position.x))),
      y |-> RAdd(a.position.y, RMul(t, RSub(b.position.y, a.position.y))) ]

\* out is stitches with counts[i] stitches inserted after stitch i
InsertedAsCounted(stitches, out, counts, before) ==
    /\ Len(out) = Len(stitches) + before[Len(stitches)]
    /\ \A i \in 1..Len(stitches) : out[i + before[i]] = stitches[i]
    /\ \A i \in 1..(Len(stitches) - 1) :
           \A j \in 1..counts[i] :
               out[i + before[i] + j]
                   = [ position |-> PointBetween(stitches[i], stitches[i + 1],
                                                 Rat(j, counts[i] + 1)),
                       type |-> stitches[i].type,
                       colorIndex |-> stitches[i].colorIndex ]

\* out is stitches with the claimed stitches inserted
InterpolatedAsClaimed(stitches, out, T) ==
    IF stitches = <<>> THEN out = <<>>
    ELSE \E counts \in { InsertedCounts(stitches, T) } :
             \E before \in { InsertedBefore(counts) } :
                 InsertedAsCounted(stitches, out, counts, before)

\* C21: on an upscale, between each consecutive pair of the scaled stitches
\* of a block whose earlier stitch is not special and whose distance d
\* exceeds 1.5 T, exactly floor(d / T) - 1 stitches are inserted, evenly
\* spaced on the segment and of the earlier stitch's type and colorIndex;
\* none is inserted when d <= 1.5 T or the earlier stitch is special; every
\* original stitch is kept, in order.
C21_InterpolationCount ==
    Upscaled =>
        \A b \in 1..Len(input.colorBlocks) :
            InterpolatedAsClaimed(MovedAll(input.colorBlocks[b].stitches, result.scale),
                                  result.design.colorBlocks[b].stitches, TargetUnits)

\* two stitches 100 units apart after the scaling, T = 4.25: 22 inserted
C21_Witness ==
    /\ Upscaled
    /\ TargetUnits = Rat(17, 4)
    /\ Len(input.colorBlocks[1].stitches) = 2
    /\ SquaredGap(Moved(input.colorBlocks[1].stitches[1], result.scale),
                  Moved(input.colorBlocks[1].stitches[2], result.scale)) = RInt(10000)
    /\ Len(result.design.colorBlocks[1].stitches) = 24

\* the cases without insertion happen too: a pair no more than 1.5 T apart,
\* and a pair further apart whose earlier stitch is special
C21_NoneInserted ==
    /\ Upscaled
    /\ \E b \in 1..Len(input.colorBlocks) :
           \E i \in 1..(Len(input.colorBlocks[b].stitches) - 1) :
               /\ ~IsSpecial(input.colorBlocks[b].stitches[i])
               /\ RLe(SquaredGap(Moved(input.colorBlocks[b].stitches[i], result.scale),
                                 Moved(input.colorBlocks[b].stitches[i + 1], result.scale)),
                      SquareOf(RMul(Rat(3, 2), TargetUnits)))
    /\ \E b \in 1..Len(input.colorBlocks) :
           \E i \in 1..(Len(input.colorBlocks[b].stitches) - 1) :
               /\ IsSpecial(input.colorBlocks[b].stitches[i])
               /\ RLt(SquareOf(RMul(Rat(3, 2), TargetUnits)),
                      SquaredGap(Moved(input.colorBlocks[b].stitches[i], result.scale),
                                 Moved(input.colorBlocks[b].stitches[i + 1], result.scale)))

(***************************************************************************)
(* A rescale to a target width and height without keeping the aspect       *)
(* ratio.                                                                  *)
(***************************************************************************)
NonUniform ==
    /\ Succeeded
    /\ call.scalePercent = NONE
    /\ call.targetWidth # NONE /\ call.targetHeight # NONE
    /\ call.preserveAspectRatio = Some(FALSE)
CallWidthRatio == RDiv(call.targetWidth, input.metadata.originalWidthMm)
CallHeightRatio == RDiv(call.targetHeight, input.metadata.originalHeightMm)
MovedPerAxis(stitch, kx, ky) ==
    [ position |-> [x |-> RMul(stitch.position.x, kx), y |-> RMul(stitch.position.y, ky)],
      type |-> stitch.type,
      colorIndex |-> stitch.colorIndex ]
\* the first stitch of every block is stitch 1 of the output block, whatever
\* the density adjustment adds or drops
FirstStitchesMoved(kx, ky) ==
    \A b \in 1..Len(input.colorBlocks) :
        input.colorBlocks[b].stitches # <<>> =>
            result.design.colorBlocks[b].stitches[1]
                = MovedPerAxis(input.colorBlocks[b].stitches[1], kx, ky)

\* C22: a rescale to a target width and height with preserveAspectRatio
\* false multiplies x by targetWidth / W and y by targetHeight / H, each
\* axis by its own ratio; the reported scale is the average of the two.
C22_PerAxisScaling ==
    NonUniform =>
        /\ result.scale = RDiv(RAdd(CallWidthRatio, CallHeightRatio), RInt(2))
        /\ FirstStitchesMoved(CallWidthRatio, CallHeightRatio)

\* the program multiplies both axes by the reported average
NonUniformMovesByAverage ==
    NonUniform =>
        /\ result.scale = RDiv(RAdd(CallWidthRatio, CallHeightRatio), RInt(2))
        /\ FirstStitchesMoved(result.scale, result.scale)
\* the two ratios differ and a first stitch is off both axes
NonUniformDistorts ==
    /\ NonUniform
    /\ CallWidthRatio # CallHeightRatio
    /\ \E b \in 1..Len(input.colorBlocks) :
           /\ input.colorBlocks[b].stitches # <<>>
           /\ input.colorBlocks[b].stitches[1].position.x # RInt(0)
           /\ input.colorBlocks[b].stitches[1].position.y # RInt(0)

(***************************************************************************)
(* The unit of the density metrics.  Positions are in 1/10 mm.             *)
(***************************************************************************)
\* the input is made of run stitches, each k units from the one before it
\* in its block, and has such a pair
RunsApart(k) ==
    /\ result.kind = "returned"
    /\ \A b \in 1..Len(input.colorBlocks) :
           \A i \in 1..Len(input.colorBlocks[b].stitches) :
               /\ input.colorBlocks[b].stitches[i].type = "run"
               /\ i > 1 => SquaredGap(input.colorBlocks[b].stitches[i - 1],
                                      input.colorBlocks[b].stitches[i]) = RInt(k * k)
    /\ \E b \in 1..Len(input.colorBlocks) : Len(input.colorBlocks[b].stitches) > 1
\* the three lengths of the metrics reported before the scaling
LengthsBefore(a) ==
    /\ result.beforeMetrics.averageDensityMm = a
    /\ result.beforeMetrics.minStitchLengthMm = a
    /\ result.beforeMetrics.maxStitchLengthMm = a
MaxUnitsApart == 60

\* C23: the average density and the least and greatest stitch length that
\* calculateDensityMetrics reports are in millimetres: run stitches k units
\* of 1/10 mm apart give k / 10.
C23_DensityInMillimetres ==
    \A k \in 1..MaxUnitsApart : RunsApart(k) => LengthsBefore(Rat(k, 10))

\* the program reports the distance in units of 1/10 mm under the name of mm
MetricsInPositionUnits ==
    \A k \in 1..MaxUnitsApart : RunsApart(k) => LengthsBefore(RInt(k))
\* run stitches 5 units (0.5 mm) apart are reported as 5
HalfMillimetreReportedAsFive == RunsApart(5) /\ LengthsBefore(RInt(5))

(***************************************************************************)
(* Where the PEC section of a written PES file is.                         *)
(***************************************************************************)
WrotePES == cfmt = "PES"
\* the three bytes at byte position at of the file are "LA:"
TagAt(at) == SubSeq(cfile, at + 1, at + 3) = <<76, 65, 58>>

\* C24: the PEC offset writePES stores in bytes 8 .. 11 of the header is 8
\* and is the byte position of the "LA:" tag that opens the PEC section.
C24_PecOffsetPointsAtSection ==
    WrotePES =>
        /\ readUInt32LE(cfile, 8) = 8
        /\ TagAt(readUInt32LE(cfile, 8))

\* the header is 12 bytes long: the stored offset is 8, the section is at 12
PecSectionAfterOffsetField ==
    WrotePES =>
        /\ readUInt32LE(cfile, 8) = 8
        /\ TagAt(12)
        /\ SubSeq(cfile, 9, 12) = <<8, 0, 0, 0>>
\* a file written and read again, read from the stored offset
ReadFromStoredOffset ==
    /\ WrotePES
    /\ cout # <<>>
    /\ cout[1] = parsePECSection(cfile, 8, cdoc.id + 1)
    /\ ~TagAt(8)

(***************************************************************************)
(* The header of a written DST file.                                       *)
(***************************************************************************)
WroteDST == cfmt = "DST"
\* the header takes 512 bytes of the file: the rest is the stitch records
\* and the end record
HeaderTakes512 ==
    /\ Len(writeDSTHeader(cdoc)) = 512
    /\ Len(cfile) = 512 + Len(writeDSTStitches(cdoc.colorBlocks)) + 3
    /\ SubSeq(cfile, 1, 512) = writeDSTHeader(cdoc)

\* C25: the header writeDST writes is 512 bytes long, its ST: field carries
\* the total stitch count and its CO: field the number of blocks less one:
\* getDSTMetadata of the file returns the document's total stitch count and
\* its number of blocks.
C25_HeaderCounts ==
    WroteDST =>
        /\ HeaderTakes512
        /\ getDSTMetadata(cfile).stitchCount = TotalStitches(cdoc.colorBlocks)
        /\ getDSTMetadata(cfile).colorCount = Len(cdoc.colorBlocks)

\* the ST: field is cut after 9 characters of its 10: the last digit of the
\* stitch count is not written
StitchCountLosesLastDigit ==
    WroteDST =>
        /\ HeaderTakes512
        /\ getDSTMetadata(cfile).stitchCount = TotalStitches(cdoc.colorBlocks) \div 10
        /\ getDSTMetadata(cfile).colorCount = Len(cdoc.colorBlocks)
        /\ SubSeq(cfile, 98, 109) = <<83, 84, 58, 32, 32, 32, 32, 32, 32, 67, 79, 58>>
\* a file of two blocks and five stitches
WroteFiveStitches ==
    /\ WroteDST
    /\ Len(cdoc.colorBlocks) = 2
    /\ TotalStitches(cdoc.colorBlocks) = 5
    /\ getDSTMetadata(cfile).stitchCount = 0

(***************************************************************************)
(* The records of a written DST file, movement by movement.                *)
(***************************************************************************)
\* the flag of a stitch's own record
OwnFlag(type) ==
    IF type = "jump" THEN 131 ELSE IF type = "trim" THEN 195
    ELSE IF type = "stop" THEN 243 ELSE 3
IsLongMove(dx, dy) == Abs(dx) > 121 \/ Abs(dy) > 121
Clamped121(d) == IF d > 121 THEN 121 ELSE IF d < -121 THEN -121 ELSE d
\* jump records clamped to 121 an axis until the rest fits, then the rest
\* under the stitch's own flag
RECURSIVE ClaimedRecords(_, _, _)
ClaimedRecords(dx, dy, type) ==
    IF IsLongMove(dx, dy)
    THEN writeDSTRecord(Clamped121(dx), Clamped121(dy), 131)
         \o ClaimedRecords(dx - Clamped121(dx), dy - Clamped121(dy), type)
    ELSE writeDSTRecord(dx, dy, OwnFlag(type))
\* the stitches of a document in order, each with the number of its block
RECURSIVE NumberedStitches(_, _)
NumberedStitches(blocks, b) ==
    IF b > Len(blocks) THEN <<>>
    ELSE [i \in 1..Len(blocks[b].stitches) |-> [block |-> b, stitch |-> blocks[b].stitches[i]]]
         \o NumberedStitches(blocks, b + 1)
XOf(numbered) == RRound(numbered.stitch.position.x)
YOf(numbered) == RRound(numbered.stitch.position.y)
\* the movement to stitch n of the sequence, the first from the origin
DxTo(all, n) == XOf(all[n]) - (IF n = 1 THEN 0 ELSE XOf(all[n - 1]))
DyTo(all, n) == YOf(all[n]) - (IF n = 1 THEN 0 ELSE YOf(all[n - 1]))
\* the records the claim gives for the stitches from n on, a color change
\* record before the first stitch of each later block
RECURSIVE ClaimedFrom(_, _)
ClaimedFrom(all, n) ==
    IF n > Len(all) THEN <<>>
    ELSE (IF n > 1 /\ all[n].block # all[n - 1].block THEN <<0, 0, 195>> ELSE <<>>)
         \o ClaimedRecords(DxTo(all, n), DyTo(all, n), all[n].stitch.type)
         \o ClaimedFrom(all, n + 1)
WrittenRecords == SubSeq(cfile, 513, Len(cfile) - 3)
\* stitch n of the document is reached by a long move
LongMoveTo(all, n) == IsLongMove(DxTo(all, n), DyTo(all, n))

\* C26: a stitch whose rounded movement exceeds 121 on an axis is written as
\* jump records (flag 0x83) clamped to [-121, 121] an axis until the rest
\* fits, followed by the rest as a record under the stitch's own flag (jump
\* 0x83, trim 0xC3, stop 0xF3, any other type 0x03); a shorter movement is
\* one record under the stitch's own flag.
C26_LongMoveSplit ==
    WroteDST => WrittenRecords = ClaimedFrom(NumberedStitches(cdoc.colorBlocks, 1), 1)

\* it is so for the documents whose long moves are all made by jump stitches
LongJumpsSplitAsClaimed ==
    (/\ WroteDST
     /\ \A n \in 1..Len(NumberedStitches(cdoc.colorBlocks, 1)) :
            LongMoveTo(NumberedStitches(cdoc.colorBlocks, 1), n)
                => NumberedStitches(cdoc.colorBlocks, 1)[n].stitch.type = "jump")
        => WrittenRecords = ClaimedFrom(NumberedStitches(cdoc.colorBlocks, 1), 1)
\* a run stitch 130 units to the right of the one before it, the first of
\* the second block (one record a stitch and the color change come before
\* it), written as two jump records
LongRunWrittenAsJumps ==
    /\ WroteDST
    /\ \E n \in 2..Len(NumberedStitches(cdoc.colorBlocks, 1)) :
           /\ DxTo(NumberedStitches(cdoc.colorBlocks, 1), n) = 130
           /\ DyTo(NumberedStitches(cdoc.colorBlocks, 1), n) = 0
           /\ NumberedStitches(cdoc.colorBlocks, 1)[n].stitch.type = "run"
           /\ NumberedStitches(cdoc.colorBlocks, 1)[n].block = 2
           /\ SubSeq(cfile, 513 + 3 * n, 513 + 3 * n + 5)
                  = writeDSTRecord(121, 0, 131) \o writeDSTRecord(9, 0, 131)

(***************************************************************************)
(* The turns of the loop of parseDSTStitches that read a color change.     *)
(***************************************************************************)
OpenedDST == ivia = "parseDST" /\ Len(ibuf) >= DST_HEADER_SIZE
\* the loop after its turns 0 .. k - 1
LoopAfter(k) == dstRecords(ibuf, 0, k - 1, ParseStart)
RecordByte(k, n) == ibuf[DST_HEADER_SIZE + 3 * k + n]
\* turn k is taken, on a whole record flagged as a color change
ReadsColorChange(k) ==
    /\ OpenedDST
    /\ DST_HEADER_SIZE + 3 * k + 3 <= Len(ibuf)
    /\ ~LoopAfter(k).done
    /\ <<RecordByte(k, 1), RecordByte(k, 2), RecordByte(k, 3)>> # <<0, 0, 243>>
    /\ Bit(RecordByte(k, 3), 128) /\ Bit(RecordByte(k, 3), 64)
\* the movement the record carries
RecordDx(k) == decodeDSTX(RecordByte(k, 1), RecordByte(k, 2))
RecordDy(k) == decodeDSTY(RecordByte(k, 1), RecordByte(k, 2))
\* after closes the block of before and opens the next with a stop marker at
\* (x, y)
BlockChanged(before, after, x, y) ==
    /\ after.colorBlocks = IF before.currentBlock.stitches # <<>>
                           THEN Append(before.colorBlocks, before.currentBlock)
                           ELSE before.colorBlocks
    /\ after.currentColorIndex = before.currentColorIndex + 1
    /\ after.currentBlock
           = [ colorIndex |-> before.currentColorIndex + 1,
               stitches |-> << [ position |-> Pt(RInt(x), RInt(y)), type |-> "stop",
                                 colorIndex |-> before.currentColorIndex + 1 ] >> ]
    /\ ~after.done
\* after is where before was, within the same bounds
NotMoved(before, after) ==
    /\ after.x = before.x /\ after.y = before.y
    /\ after.minX = before.minX /\ after.maxX = before.maxX
    /\ after.minY = before.minY /\ after.maxY = before.maxY
LastTurn == (Len(ibuf) - DST_HEADER_SIZE) \div 3

\* C27: a record flagged as a color change closes the current block (pushed
\* only if it has a stitch), adds one to the color counter, opens a block of
\* that colorIndex holding a stop marker at the position reached before the
\* record, and moves neither the position nor the bounds.
C27_ColorChangeOnParse ==
    \A k \in 0..LastTurn :
        ReadsColorChange(k) =>
            /\ BlockChanged(LoopAfter(k), LoopAfter(k + 1), LoopAfter(k).x, LoopAfter(k).y)
            /\ NotMoved(LoopAfter(k), LoopAfter(k + 1))

\* C27, amended: a record flagged as a color change first moves the position
\* by the movement it carries, the bounds with it; it then closes the current
\* block (pushed only if it has a stitch), adds one to the color counter and
\* opens a block of that colorIndex holding a stop marker at the position
\* moved to.  A color change record without movement, as writeDST writes it,
\* leaves the position and the bounds as they were.
C27_ColorChangeAfterMove ==
    \A k \in 0..LastTurn :
        ReadsColorChange(k) =>
            /\ BlockChanged(LoopAfter(k), LoopAfter(k + 1),
                            LoopAfter(k).x + RecordDx(k), LoopAfter(k).y + RecordDy(k))
            /\ LoopAfter(k + 1).x = LoopAfter(k).x + RecordDx(k)
            /\ LoopAfter(k + 1).y = LoopAfter(k).y + RecordDy(k)
            /\ (RecordDx(k) = 0 /\ RecordDy(k) = 0) => NotMoved(LoopAfter(k), LoopAfter(k + 1))
\* a color change record that carries a movement, read after a stitch
C27_Witness ==
    \E k \in 1..LastTurn :
        /\ ReadsColorChange(k)
        /\ RecordDx(k) = 1
        /\ LoopAfter(k).currentBlock.stitches # <<>>
        /\ LoopAfter(k + 1).x = LoopAfter(k).x + 1
        /\ iout[1].kind = "parsed"

(***************************************************************************)
(* The end record 00 00 F3 among the records of a written DST file.        *)
(***************************************************************************)
\* the records of the file, the end record writeDST closes it with included
RecordsWritten == (Len(cfile) - DST_HEADER_SIZE) \div 3
RecordWritten(k) == SubSeq(cfile, DST_HEADER_SIZE + 3 * k - 2, DST_HEADER_SIZE + 3 * k)
\* the file was written from a document that parseDST returned
WrittenAgain == WroteDST /\ cdoc.originalFormat = "DST"

\* C28: among the records writeDST writes, 00 00 F3 is the last one only,
\* also for a document that holds a stop stitch without movement, such as
\* the marker parseDST puts at the head of a block; parseDST of the file
\* does not leave its loop before the last record, and the document parsed
\* from a file written from a parsed document has the stitches of that
\* document in each block.
C28_EndRecordOnlyLast ==
    WroteDST =>
        /\ \A k \in 1..(RecordsWritten - 1) : RecordWritten(k) # <<0, 0, 243>>
        /\ ~dstRecords(cfile, 0, RecordsWritten - 2, ParseStart).done
        /\ (WrittenAgain /\ cout # <<>>) =>
               /\ cout[1].kind = "parsed"
               /\ Len(cout[1].design.colorBlocks) = Len(cdoc.colorBlocks)
               /\ \A b \in 1..Len(cdoc.colorBlocks) :
                      Len(cout[1].design.colorBlocks[b].stitches)
                          >= Len(cdoc.colorBlocks[b].stitches)

\* it is so for the documents without a stop stitch
EndRecordOnlyLastWithoutStops ==
    (WroteDST /\ \A b \in 1..Len(cdoc.colorBlocks) :
                     \A i \in 1..Len(cdoc.colorBlocks[b].stitches) :
                         cdoc.colorBlocks[b].stitches[i].type # "stop")
        => /\ \A k \in 1..(RecordsWritten - 1) : RecordWritten(k) # <<0, 0, 243>>
           /\ ~dstRecords(cfile, 0, RecordsWritten - 2, ParseStart).done
\* a parsed document of two blocks written again: the marker that opens its
\* second block is written as 00 00 F3 right after the color change, and the
\* stitches after it are not read
EndRecordInTheMiddle ==
    /\ WrittenAgain
    /\ cout # <<>>
    /\ Len(cdoc.colorBlocks) = 2
    /\ Len(cdoc.colorBlocks[2].stitches) = 3
    /\ \E k \in 2..(RecordsWritten - 2) :
           /\ RecordWritten(k - 1) = <<0, 0, 195>>
           /\ RecordWritten(k) = <<0, 0, 243>>
    /\ cout[1].kind = "parsed"
    /\ Len(cout[1].design.colorBlocks[2].stitches) = 1

(***************************************************************************)
(* What the long-move loops write.                                         *)
(***************************************************************************)
RECURSIVE SumOfSteps(_, _)
SumOfSteps(steps, axis) ==
    IF steps = <<>> THEN 0 ELSE Head(steps)[axis] + SumOfSteps(Tail(steps), axis)
StepsWithin(limit) ==
    \A n \in 1..Len(jsteps) : Abs(jsteps[n][1]) <= limit /\ Abs(jsteps[n][2]) <= limit
\* in the loop, the steps written and what remains make up the movement
JumpAccounted ==
    /\ jpc = "loop"
    /\ SumOfSteps(jsteps, 1) + jremX = jdx
    /\ SumOfSteps(jsteps, 2) + jremY = jdy
\* the loop is over: the steps written are the movement
JumpDone ==
    /\ jpc = "done"
    /\ SumOfSteps(jsteps, 1) = jdx
    /\ SumOfSteps(jsteps, 2) = jdy
JumpSafe ==
    jfmt # "none" =>
        /\ StepsWithin(JumpLimit(jfmt))
        /\ JumpAccounted \/ JumpDone

\* C29: writeDSTJump (limit 121) and writePECJump (limit 2047) come to an
\* end on every movement (dx, dy); every step they write is within the limit
\* on both axes, and the steps written add up to (dx, dy) on each axis.
C29_SplitPreservesMove == [](JumpSafe) /\ <>(JumpDone)

\* a movement of two whole steps and one unit along x, the other way along
\* y, written in three steps
C29_Witness ==
    /\ jfmt = "DST"
    /\ jdx = 243 /\ jdy = -243
    /\ jsteps = << <<121, -121>>, <<121, -121>>, <<1, -1>> >>
    /\ JumpDone
\* the steps of the loop are the records writeDSTJump and writePECJump write
RECURSIVE RecordsOfSteps(_, _)
RecordsOfSteps(steps, format) ==
    IF steps = <<>> THEN <<>>
    ELSE (IF format = "DST" THEN writeDSTRecord(Head(steps)[1], Head(steps)[2], 131)
          ELSE writePECStitch(Head(steps)[1], Head(steps)[2], TRUE))
         \o RecordsOfSteps(Tail(steps), format)
JumpWritesTheSteps ==
    (jfmt # "none" /\ jpc = "done") =>
        RecordsOfSteps(jsteps, jfmt)
            = IF jfmt = "DST" THEN writeDSTJump(jdx, jdy) ELSE writePECJump(jdx, jdy)

(***************************************************************************)
(* The app when no timeout is pending.                                     *)
(***************************************************************************)
\* what scaledDesign is once the scaling for the current originalDesign and
\* scale is done
SettledDesign ==
    IF uOriginal = NONE \/ uScale = 100 THEN uOriginal
    ELSE scaledOrOriginal(scaleDesignIn(uOriginal[1], uScale), uOriginal[1])
AppLoaded == uLoads > 0

\* C30: whenever no timeout is pending, isScaling is false and scaledDesign
\* is the outcome of the rescale of the current originalDesign by the current
\* scale (originalDesign itself at scale 100 or when the rescale is
\* blocked); a pending timeout is the one of the current originalDesign and
\* scale.
C30_QuietWhenNoTimer ==
    /\ uTimer = NONE => (~uIsScaling /\ uScaled = SettledDesign)
    /\ uTimer # NONE =>
           uTimer = Some([originalDesign |-> uOriginal[1], scale |-> uScale])

\* all of it but isScaling holds
ScaledDesignSettles ==
    /\ uTimer = NONE => uScaled = SettledDesign
    /\ uTimer # NONE =>
           /\ uIsScaling
           /\ uTimer = Some([originalDesign |-> uOriginal[1], scale |-> uScale])
\* isScaling is true with no timeout pending only at scale 100
ScalingLeftOnAtHundred ==
    (uTimer = NONE /\ uIsScaling) => uScale = 100
\* the slider moved away and back to 100 before the timeout: isScaling stays
StuckScaling ==
    /\ AppLoaded
    /\ uTimer = NONE
    /\ uIsScaling
    /\ uScale = 100
    /\ uScaled = uOriginal
\* a timeout that ran: a rescale kept, and a rescale blocked
RescaleShown ==
    /\ uTimer = NONE /\ ~uIsScaling /\ uScale = 50
    /\ uScaled # uOriginal
RescaleBlocked ==
    /\ uTimer = NONE /\ ~uIsScaling /\ uScale = 200
    /\ uScaled = uOriginal
====
